---- MODULE Spec2Model ----
(***************************************************************************)
(* The card store of src/app.js (loadCards with its legacy-card migration, *)
(* saveCards, createCard, deleteCard) over the localStorage item MEMORY,   *)
(* the views that enter cards into it (add view, import view with its      *)
(* preview, list view), and the functions sanitizeInput, parseTextToCards, *)
(* parseSubscriptSuperscript and shuffleCards, each under a specification  *)
(* of its own.                                                             *)
(*                                                                         *)
(* The stored item is a string.  A string is modelled as its sequence of   *)
(* JSON tokens, so that JSON.parse is a parser that can fail and           *)
(* JSON.stringify is a printer; a parsed value is a JavaScript value.      *)
(***************************************************************************)
EXTENDS Integers, Sequences, FiniteSets, TLC

(***************************************************************************)
(* Bounds of the model.                                                    *)
(***************************************************************************)
\* longest array in the item MEMORY before the first operation
MaxLen == 2
\* number of store operations in one run
MaxSteps == 2

(***************************************************************************)
(* JavaScript values.  Every value is a record of the same shape:          *)
(*   t  the type: "undefined", "null", "str", "arr" or "obj"               *)
(*   s  the characters of a string                                         *)
(*   a  the elements of an array                                           *)
(*   o  the properties of an object, in insertion order, as <<k, v>> pairs *)
(***************************************************************************)
Undefined == [t |-> "undefined", s |-> "", a |-> <<>>, o |-> <<>>]

JNull == [t |-> "null", s |-> "", a |-> <<>>, o |-> <<>>]

JStr(x) == [t |-> "str", s |-> x, a |-> <<>>, o |-> <<>>]

JArr(xs) == [t |-> "arr", s |-> "", a |-> xs, o |-> <<>>]

JObj(kvs) == [t |-> "obj", s |-> "", a |-> <<>>, o |-> kvs]

Prop(k, v) == [k |-> k, v |-> v]

\* obj[k]: the value of property k, undefined when obj has no such property
\* (and for a primitive that is not null or undefined)
Get(obj, k) ==
    IF \E i \in 1..Len(obj.o) : obj.o[i].k = k
    THEN obj.o[CHOOSE i \in 1..Len(obj.o) : obj.o[i].k = k].v
    ELSE Undefined

\* the properties kvs after the assignment of v to property k: an existing
\* property keeps its place, a new one goes last
Put(kvs, k, v) ==
    IF \E i \in 1..Len(kvs) : kvs[i].k = k
    THEN [i \in 1..Len(kvs) |-> IF kvs[i].k = k THEN Prop(k, v) ELSE kvs[i]]
    ELSE Append(kvs, Prop(k, v))

\* !v
Falsy(v) == v.t \in {"undefined", "null"} \/ (v.t = "str" /\ v.s = "")

\* Array.isArray(v)
IsArray(v) == v.t = "arr"

(***************************************************************************)
(* JSON text: a sequence of tokens.                                        *)
(***************************************************************************)
Tok(t, s) == [t |-> t, s |-> s]

RECURSIVE Stringify(_)
RECURSIVE StringifyElements(_)
RECURSIVE StringifyMembers(_)

\* JSON.stringify(v), for a value that is not undefined
Stringify(v) ==
    CASE v.t = "str" -> <<Tok("str", v.s)>>
      [] v.t = "arr" -> <<Tok("[", "")>> \o StringifyElements(v.a) \o <<Tok("]", "")>>
      [] v.t = "obj" ->
            <<Tok("{", "")>>
            \o StringifyMembers(SelectSeq(v.o, LAMBDA p : p.v.t # "undefined"))
            \o <<Tok("}", "")>>
      [] OTHER -> <<Tok("null", "")>>

\* the elements of an array: an undefined element is written as null
StringifyElements(xs) ==
    IF xs = <<>> THEN <<>>
    ELSE Stringify(Head(xs))
         \o (IF Len(xs) > 1 THEN <<Tok(",", "")>> \o StringifyElements(Tail(xs))
             ELSE <<>>)

\* the properties of an object (those with an undefined value are left out)
StringifyMembers(kvs) ==
    IF kvs = <<>> THEN <<>>
    ELSE <<Tok("str", Head(kvs).k), Tok(":", "")>> \o Stringify(Head(kvs).v)
         \o (IF Len(kvs) > 1 THEN <<Tok(",", "")>> \o StringifyMembers(Tail(kvs))
             ELSE <<>>)

ParseFail == [ok |-> FALSE, val |-> Undefined, next |-> 0]

ParseOk(v, next) == [ok |-> TRUE, val |-> v, next |-> next]

RECURSIVE ParseValue(_, _)
RECURSIVE ParseElements(_, _, _)
RECURSIVE ParseMembers(_, _, _)

\* one JSON value starting at token i of ts; next is the token after it
ParseValue(ts, i) ==
    IF i > Len(ts) THEN ParseFail
    ELSE CASE ts[i].t = "null" -> ParseOk(JNull, i + 1)
           [] ts[i].t = "str" -> ParseOk(JStr(ts[i].s), i + 1)
           [] ts[i].t = "[" ->
                IF i < Len(ts) /\ ts[i + 1].t = "]"
                THEN ParseOk(JArr(<<>>), i + 2)
                ELSE ParseElements(ts, i + 1, <<>>)
           [] ts[i].t = "{" ->
                IF i < Len(ts) /\ ts[i + 1].t = "}"
                THEN ParseOk(JObj(<<>>), i + 2)
                ELSE ParseMembers(ts, i + 1, <<>>)
           [] OTHER -> ParseFail

\* value (, value)* ]
ParseElements(ts, i, acc) ==
    LET r == ParseValue(ts, i) IN
    IF ~r.ok \/ r.next > Len(ts) THEN ParseFail
    ELSE CASE ts[r.next].t = "," -> ParseElements(ts, r.next + 1, Append(acc, r.val))
           [] ts[r.next].t = "]" -> ParseOk(JArr(Append(acc, r.val)), r.next + 1)
           [] OTHER -> ParseFail

\* string : value (, string : value)* }
ParseMembers(ts, i, acc) ==
    IF i + 1 > Len(ts) \/ ts[i].t # "str" \/ ts[i + 1].t # ":" THEN ParseFail
    ELSE LET r == ParseValue(ts, i + 2) IN
         IF ~r.ok \/ r.next > Len(ts) THEN ParseFail
         ELSE CASE ts[r.next].t = "," ->
                     ParseMembers(ts, r.next + 1, Put(acc, ts[i].s, r.val))
                [] ts[r.next].t = "}" ->
                     ParseOk(JObj(Put(acc, ts[i].s, r.val)), r.next + 1)
                [] OTHER -> ParseFail

\* JSON.parse(text): ok is FALSE when it throws a SyntaxError
JSONParse(text) ==
    LET r == ParseValue(text, 1) IN
    IF r.ok /\ r.next = Len(text) + 1 THEN r ELSE ParseFail

(***************************************************************************)
(* Exceptions.  localStorage.setItem either stores the value or throws.    *)
(***************************************************************************)
Exc(name, message) == [name |-> name, message |-> message]

NoException == Exc("", "")

\* what the browser throws when it rejects a write
Rejections ==
    { Exc("QuotaExceededError", "exceeded the quota"),
      Exc("SecurityError", "operation is insecure"),
      Exc("InvalidStateError", "storage is unavailable") }

SetItemOutcomes == {NoException} \cup Rejections

\* the item under STORAGE_KEY: absent, or a string (its tokens)
NoItem == [present |-> FALSE, text |-> <<>>]

Item(text) == [present |-> TRUE, text |-> text]

\* localStorage.setItem(STORAGE_KEY, text) with outcome w
SetItem(st, text, w) == IF w = NoException THEN Item(text) ELSE st

(***************************************************************************)
(* generateUniqueId.  crypto.randomUUID() (or the timestamp and random     *)
(* fallback) is modelled by what it is relied on for: the n-th draw is a   *)
(* non-empty string no other draw returns and no stored record carries.    *)
(***************************************************************************)
\* a generator that returns the same string at every draw
GenerateUniqueIdRepeating(n) == "g0"

GenerateUniqueId(n) == "g" \o ToString(n)

(***************************************************************************)
(* loadCards                                                               *)
(***************************************************************************)
\* the callback returning a new record that holds the id alone
MigrateCardIdOnly(card, n) ==
    IF card.t \in {"null", "undefined"}
    THEN [exc |-> Exc("TypeError", "cannot read properties of null"),
          card |-> Undefined, n |-> n, migrated |-> FALSE]
    ELSE IF Falsy(Get(card, "id"))
    THEN [exc |-> NoException,
          card |-> JObj(<<Prop("id", JStr(GenerateUniqueId(n + 1)))>>),
          n |-> n + 1, migrated |-> TRUE]
    ELSE [exc |-> NoException, card |-> card, n |-> n, migrated |-> FALSE]

\* the callback giving every record a new id, whether it has one or not
MigrateCardAlways(card, n) ==
    IF card.t \in {"null", "undefined"}
    THEN [exc |-> Exc("TypeError", "cannot read properties of null"),
          card |-> Undefined, n |-> n, migrated |-> FALSE]
    ELSE [exc |-> NoException,
          card |-> JObj(Put(card.o, "id", JStr(GenerateUniqueId(n + 1)))),
          n |-> n + 1, migrated |-> TRUE]

\* the callback of parsed.map: n identifiers were drawn before the call.
\* Reading card.id of null or undefined throws a TypeError.
MigrateCard(card, n) ==
    IF card.t \in {"null", "undefined"}
    THEN [exc |-> Exc("TypeError", "cannot read properties of null"),
          card |-> Undefined, n |-> n, migrated |-> FALSE]
    ELSE IF Falsy(Get(card, "id"))
    THEN [exc |-> NoException,
          card |-> JObj(Put(card.o, "id", JStr(GenerateUniqueId(n + 1)))),
          n |-> n + 1, migrated |-> TRUE]
    ELSE [exc |-> NoException, card |-> card, n |-> n, migrated |-> FALSE]

RECURSIVE MigrateMap(_, _, _, _)
\* parsed.map(...) with a callback that never sets needsMigration
MigrateMapUnflagged(elems, n, acc, needsMigration) ==
    IF elems = <<>>
    THEN [exc |-> NoException, cards |-> acc, n |-> n, needsMigration |-> FALSE]
    ELSE LET m == MigrateCard(Head(elems), n) IN
         IF m.exc # NoException
         THEN [exc |-> m.exc, cards |-> <<>>, n |-> m.n, needsMigration |-> FALSE]
         ELSE MigrateMap(Tail(elems), m.n, Append(acc, m.card), FALSE)

\* parsed.map(...) over the elements left, acc the cards mapped so far
MigrateMap(elems, n, acc, needsMigration) ==
    IF elems = <<>>
    THEN [exc |-> NoException, cards |-> acc, n |-> n,
          needsMigration |-> needsMigration]
    ELSE LET m == MigrateCard(Head(elems), n) IN
         IF m.exc # NoException
         THEN [exc |-> m.exc, cards |-> <<>>, n |-> m.n,
               needsMigration |-> needsMigration]
         ELSE MigrateMap(Tail(elems), m.n, Append(acc, m.card),
                         needsMigration \/ m.migrated)

\* what a call leaves: the exception it ends with (NoException: it returns
\* cards), the item, the identifiers drawn, the outcomes of its writes
Result(exc, cards, st, n, writes) ==
    [exc |-> exc, cards |-> cards, storage |-> st, n |-> n, writes |-> writes]

\* the try block without the inner try around the write-back: a rejected
\* write leaves the block as an exception
LoadCardsTryUncaughtWrite(st, n, w) ==
    LET p == JSONParse(st.text) IN
    IF ~p.ok THEN Result(Exc("SyntaxError", "unexpected token"), <<>>, st, n, <<>>)
    ELSE IF ~IsArray(p.val) THEN Result(NoException, <<>>, st, n, <<>>)
    ELSE LET m == MigrateMap(p.val.a, n, <<>>, FALSE) IN
         IF m.exc # NoException THEN Result(m.exc, <<>>, st, m.n, <<>>)
         ELSE IF m.needsMigration
         THEN Result(w, IF w = NoException THEN m.cards ELSE <<>>,
                     SetItem(st, Stringify(JArr(m.cards)), w), m.n, <<w>>)
         ELSE Result(NoException, m.cards, st, n, <<>>)

\* the try block of loadCards; w is the outcome of the write-back
LoadCardsTry(st, n, w) ==
    LET p == JSONParse(st.text) IN
    IF ~p.ok THEN Result(Exc("SyntaxError", "unexpected token"), <<>>, st, n, <<>>)
    ELSE IF ~IsArray(p.val) THEN Result(NoException, <<>>, st, n, <<>>)
    ELSE LET m == MigrateMap(p.val.a, n, <<>>, FALSE) IN
         IF m.exc # NoException THEN Result(m.exc, <<>>, st, m.n, <<>>)
         ELSE IF m.needsMigration
         THEN Result(NoException, m.cards,
                     SetItem(st, Stringify(JArr(m.cards)), w), m.n, <<w>>)
         ELSE Result(NoException, m.cards, st, n, <<>>)

\* loadCards() without the catch of its try block: the exception escapes
LoadCardsNoCatch(st, n, w) ==
    IF ~st.present \/ st.text = <<>> THEN Result(NoException, <<>>, st, n, <<>>)
    ELSE LoadCardsTry(st, n, w)

\* loadCards(): the guard on the item, the try block and its catch
LoadCards(st, n, w) ==
    IF ~st.present \/ st.text = <<>> THEN Result(NoException, <<>>, st, n, <<>>)
    ELSE LET r == LoadCardsTry(st, n, w) IN
         IF r.exc # NoException
         THEN Result(NoException, <<>>, r.storage, r.n, r.writes)
         ELSE r

(***************************************************************************)
(* saveCards, createCard, deleteCard                                       *)
(***************************************************************************)
\* the messages of the errors handleStorageError throws
QuotaMessage == "storage capacity is insufficient"

SecurityMessage == "cannot save in private browsing mode"

OtherMessage(context, message) == context \o " save failed: " \o message

\* handleStorageError without its classification of e.name
HandleStorageErrorUnclassified(e, context) ==
    Exc("Error", OtherMessage(context, "write failed"))

\* handleStorageError(e, context): the Error it throws
HandleStorageError(e, context) ==
    IF e.name = "QuotaExceededError" THEN Exc("Error", QuotaMessage)
    ELSE IF e.name = "SecurityError" THEN Exc("Error", SecurityMessage)
    ELSE Exc("Error", OtherMessage(context, e.message))

\* saveCards(cards) after the call r that produced cards; w is the outcome
\* of its write
SaveCards(r, cards, w) ==
    Result(IF w = NoException THEN NoException ELSE HandleStorageError(w, "card data"),
           <<>>, SetItem(r.storage, Stringify(JArr(cards)), w), r.n,
           Append(r.writes, w))

\* the card createCard builds, with the n-th identifier
NewCard(n, category, question, answer) ==
    JObj(<<Prop("id", JStr(GenerateUniqueId(n))), Prop("category", JStr(category)),
           Prop("question", JStr(question)), Prop("answer", JStr(answer))>>)

\* createCard putting the new card first (unshift for push)
CreateCardRunUnshift(n, category, question, answer, r, w) ==
    LET card == NewCard(n + 1, category, question, answer) IN
    SaveCards(r, <<card>> \o r.cards, w)

\* createCard(category, question, answer), n identifiers drawn before it;
\* r is what its loadCards() call, made after generateUniqueId(), leaves
CreateCardRun(n, category, question, answer, r, w) ==
    LET card == NewCard(n + 1, category, question, answer) IN
    SaveCards(r, Append(r.cards, card), w)

\* cards after cards.splice(start, 1)
Splice(cards, start) ==
    LET len == Len(cards)
        from == IF start < 0 THEN (IF len + start < 0 THEN 0 ELSE len + start)
                ELSE (IF start > len THEN len ELSE start)
    IN  IF from < len
        THEN SubSeq(cards, 1, from) \o SubSeq(cards, from + 2, len)
        ELSE cards

\* cards.findIndex(c => c.id === id), counted from 0; -1 when there is none
FindIndex(cards, id) ==
    IF \E i \in 1..Len(cards) : Get(cards[i], "id") = JStr(id)
    THEN (CHOOSE i \in 1..Len(cards) :
             /\ Get(cards[i], "id") = JStr(id)
             /\ \A j \in 1..(i - 1) : Get(cards[j], "id") # JStr(id)) - 1
    ELSE -1

\* the argument of deleteCard: a number or a string
NumArg(i) == [isNum |-> TRUE, index |-> i, id |-> ""]

StrArg(id) == [isNum |-> FALSE, index |-> 0, id |-> id]

\* deleteCard dropping every card with the id (filter for findIndex/splice)
RemoveEveryMatch(cards, idOrIndex) ==
    IF idOrIndex.isNum THEN Splice(cards, idOrIndex.index)
    ELSE SelectSeq(cards, LAMBDA c : Get(c, "id") # JStr(idOrIndex.id))

\* the cards deleteCard keeps
Remove(cards, idOrIndex) ==
    IF idOrIndex.isNum THEN Splice(cards, idOrIndex.index)
    ELSE LET index == FindIndex(cards, idOrIndex.id) IN
         IF index # -1 THEN Splice(cards, index) ELSE cards

\* deleteCard(idOrIndex); r is what its loadCards() call leaves
DeleteCardRun(idOrIndex, r, w) == SaveCards(r, Remove(r.cards, idOrIndex), w)

(***************************************************************************)
(* The state.                                                              *)
(***************************************************************************)
VARIABLES
    storage,    \* the localStorage item under STORAGE_KEY
    idCount,    \* identifiers generateUniqueId has returned so far
    op,         \* the last operation called: its name ("" before the first)
    arg,        \* its arguments
    ret,        \* the cards the last loadCards() call of the caller returned
    err,        \* the exception the last operation threw, or NoException
    writes,     \* the outcomes of the setItem calls the last operation made
    pre,        \* the item before the last operation
    prev,       \* the operation before the last one, when it was a loadCards()
    steps,      \* operations called so far
    extractedCards, \* the cards of the import preview
    saveBtn,    \* the import preview shows its save button
    view,       \* the view that is not hidden
    fn,         \* the function applied on its own ("" before it is applied)
    args,       \* its arguments
    result,     \* what it returned
    contexts,   \* the execution contexts (tabs) that share the item, each
                \* with the position of its createCard call and its locals
    selectedImage,   \* an image is selected (let selectedImage, not null)
    isProcessingOCR, \* let isProcessingOCR
    processBtn,      \* the element process-image-btn: its disabled property
    runs,       \* the process-image runs that await performOCR
    wait,       \* the delay a function is debounced with
    now,        \* the time, in milliseconds
    timeout,    \* let timeout of the debounce closure: the last timer set
    timers,     \* the timers set and neither cleared nor run
    log,        \* the calls of the wrapper and of func, in order
    quizWordArray,  \* let quizWordArray
    currentIndex,   \* let currentIndex
    isAnswerShown,  \* let isAnswerShown
    actionBtn,      \* the element quiz-action-btn: its text, and the clicks
                    \* on it since startQuiz()
    shown       \* the cards displayCurrentCard has displayed, in order

\* the import view
import == <<extractedCards, saveBtn, view>>

\* a function applied on its own
call == <<fn, args, result>>

\* the execution contexts
tabs == <<contexts>>

\* the image processing of the import view
processing == <<selectedImage, isProcessingOCR, processBtn, runs>>

\* a debounced function and its timers
timing == <<wait, now, timeout, timers, log>>

\* the quiz
quiz == <<quizWordArray, currentIndex, isAnswerShown, actionBtn, shown>>

vars == <<storage, idCount, op, arg, ret, err, writes, pre, prev, steps,
          extractedCards, saveBtn, view, fn, args, result, contexts,
          selectedImage, isProcessingOCR, processBtn, runs,
          wait, now, timeout, timers, log,
          quizWordArray, currentIndex, isAnswerShown, actionBtn, shown>>

\* the records in the item before the first operation: the i-th one has the
\* i-th question, answer and category; it has no id (a legacy record) or one
\* of two ids, and the array may hold null instead
Questions == <<"q1", "q2", "q3", "q4", "q5">>

Answers == <<"a1", "a2", "a3", "a4", "a5">>

Categories == <<"b", "a", "a", "c", "b">>

StoredIds == {"a", "b"}

Fields(i) ==
    <<Prop("category", JStr(Categories[i])), Prop("question", JStr(Questions[i])),
      Prop("answer", JStr(Answers[i]))>>

LegacyCard(i) == JObj(Fields(i))

CardWithId(i, id) == JObj(<<Prop("id", JStr(id))>> \o Fields(i))

Elements(i) == {LegacyCard(i), JNull} \cup {CardWithId(i, id) : id \in StoredIds}

AllElements == UNION {Elements(i) : i \in 1..(MaxLen + 1)}

StoredArrays ==
    UNION {{a \in [1..n -> AllElements] : \A i \in 1..n : a[i] \in Elements(i)} :
             n \in 0..MaxLen}

\* items that are no array of records: no item, the empty string, text that
\* is no JSON ("{invalid json}", a cut-off array), JSON that is no array
BrokenItems ==
    { NoItem,
      Item(<<>>),
      Item(<<Tok("{", ""), Tok("str", "invalid json"), Tok("}", "")>>),
      Item(<<Tok("[", "")>> \o Stringify(LegacyCard(1))),
      Item(Stringify(JObj(<<Prop("not", JStr("an array"))>>))),
      Item(Stringify(JNull)) }

InitialItems == BrokenItems \cup {Item(Stringify(JArr(a))) : a \in StoredArrays}

NoArg == [category |-> "", question |-> "", answer |-> "",
          isNum |-> FALSE, index |-> 0, id |-> ""]

NoPrev == [valid |-> FALSE, ret |-> <<>>, pre |-> NoItem, writes |-> <<>>]

\* the views when the page is loaded: the home view is shown, the import
\* view has let extractedCards = [] and a preview without a save button
ImportClosed == extractedCards = <<>> /\ saveBtn = FALSE /\ view = "home-view"

\* no function is applied on its own
NotApplied == fn = "" /\ args = <<>> /\ result = <<>>

\* one execution context only: no other one shares the item
OneContext == contexts = <<>>

\* let selectedImage = null; let isProcessingOCR = false; the process button
\* is disabled in the page as loaded; no run awaits
NoOcr ==
    /\ selectedImage = FALSE
    /\ isProcessingOCR = FALSE
    /\ processBtn = [disabled |-> TRUE]
    /\ runs = <<>>

\* no function is debounced
NoDebounce ==
    wait = 0 /\ now = 0 /\ timeout = 0 /\ timers = {} /\ log = <<>>

\* let quizWordArray = []; let currentIndex = 0; let isAnswerShown = false
NoQuiz ==
    /\ quizWordArray = <<>>
    /\ currentIndex = 0
    /\ isAnswerShown = FALSE
    /\ actionBtn = [textContent |-> "", clicks |-> 0]
    /\ shown = <<>>

\* the parts of the page an operation on the store or a function applied on
\* its own does not touch, as the page is when loaded
PageLoaded == OneContext /\ NoOcr /\ NoDebounce /\ NoQuiz

page == <<tabs, processing, timing, quiz>>

Init ==
    /\ storage \in InitialItems
    /\ idCount = 0
    /\ op = ""
    /\ arg = NoArg
    /\ ret = <<>>
    /\ err = NoException
    /\ writes = <<>>
    /\ pre = NoItem
    /\ prev = NoPrev
    /\ steps = 0
    /\ ImportClosed
    /\ NotApplied
    /\ PageLoaded

\* what every operation records: r is what the call leaves
Called(name, a, r) ==
    /\ steps' = steps + 1
    /\ op' = name
    /\ arg' = a
    /\ pre' = storage
    /\ prev' = IF op = "loadCards"
               THEN [valid |-> TRUE, ret |-> ret, pre |-> pre, writes |-> writes]
               ELSE NoPrev
    /\ storage' = r.storage
    /\ idCount' = r.n
    /\ err' = r.exc
    /\ writes' = r.writes
    /\ ret' = r.cards
    /\ UNCHANGED <<import, call, page>>

\* the outcomes the write-back of loadCards() can have in this state: the
\* call writes only when some record lacks an id
WriteBackOutcomes ==
    IF LoadCards(storage, idCount, NoException).writes = <<>>
    THEN {NoException} ELSE SetItemOutcomes

\* a caller calls loadCards()
Load ==
    /\ steps < MaxSteps
    /\ \E w \in WriteBackOutcomes :
         Called("loadCards", NoArg, LoadCards(storage, idCount, w))

\* the inputs of createCard
NewCategories == {"a", "d"}

NewQuestions == {"q8"}

NewAnswers == {"a9"}

\* a caller calls createCard(category, question, answer): it draws the id,
\* calls loadCards() (write-back outcome w1) and saveCards (outcome w2)
Create ==
    /\ steps < MaxSteps
    /\ \E w1 \in WriteBackOutcomes :
         \E l \in {LoadCards(storage, idCount + 1, w1)} :
            \E category \in NewCategories, question \in NewQuestions,
               answer \in NewAnswers, w2 \in SetItemOutcomes :
                Called("createCard",
                       [NoArg EXCEPT !.category = category, !.question = question,
                                     !.answer = answer],
                       CreateCardRun(idCount, category, question, answer, l, w2))

\* the ids a caller can pass: those stored at the start, one no record has,
\* and those generateUniqueId has returned
KnownIds == {"a", "b", "zz"} \cup {GenerateUniqueId(k) : k \in 1..idCount}

Indexes == (-1)..MaxLen

\* a caller calls deleteCard(idOrIndex): it calls loadCards() (write-back
\* outcome w1), removes, and calls saveCards (outcome w2)
Delete ==
    /\ steps < MaxSteps
    /\ \E w1 \in WriteBackOutcomes :
         \E l \in {LoadCards(storage, idCount, w1)} :
            \E a \in {StrArg(id) : id \in KnownIds} \cup {NumArg(i) : i \in Indexes},
               w2 \in SetItemOutcomes :
                Called("deleteCard",
                       [NoArg EXCEPT !.isNum = a.isNum, !.index = a.index,
                                     !.id = a.id],
                       DeleteCardRun(a, l, w2))

Next == Load \/ Create \/ Delete

Spec == Init /\ [][Next]_vars

(***************************************************************************)
(* Reading the state.                                                      *)
(***************************************************************************)
\* the item holds text JSON.parse turns into an array
HoldsArray(st) ==
    st.present /\ JSONParse(st.text).ok /\ IsArray(JSONParse(st.text).val)

\* the array the item holds
CardsOf(st) == JSONParse(st.text).val.a

\* the item holds an array of card records (objects)
HoldsCards(st) ==
    HoldsArray(st) /\ \A i \in 1..Len(CardsOf(st)) : CardsOf(st)[i].t = "obj"

\* the record carries an id: a non-empty string
HasId(card) == Get(card, "id").t = "str" /\ Get(card, "id").s # ""

AllHaveId(cards) == \A i \in 1..Len(cards) : HasId(cards[i])

\* no two records of cards carry the same id
DistinctIds(cards) ==
    \A i, j \in 1..Len(cards) :
        (i # j /\ HasId(cards[i]) /\ HasId(cards[j]))
            => Get(cards[i], "id") # Get(cards[j], "id")

\* category, question and answer of the two records agree
SameFields(c, d) ==
    \A k \in {"category", "question", "answer"} : Get(c, k) = Get(d, k)

(***************************************************************************)
(* loadCards: recovery and migration                                       *)
(***************************************************************************)
\* the item is absent, is no JSON, or is JSON that is no array
Broken(st) == ~HoldsArray(st)

\* C1: loadCards never throws, and returns the empty sequence whenever the
\* item is absent, is not parseable JSON, or parses to a value that is no
\* array.
C1_LoadFailsSoft ==
    op = "loadCards" => (err = NoException /\ (Broken(pre) => ret = <<>>))

\* a loadCards() call on an item whose text is no JSON
C1_Witness ==
    /\ op = "loadCards"
    /\ pre.present /\ pre.text # <<>> /\ ~JSONParse(pre.text).ok
    /\ ret = <<>> /\ err = NoException

\* C2: migration completeness.  For a stored array of N card records
\* loadCards returns N records in the same positions; a record that had an
\* id keeps it, a record that lacked one has a non-empty id that differs from
\* every other id of the result, and category, question and answer of every
\* record are unchanged.
C2_MigrationComplete ==
    (op = "loadCards" /\ HoldsCards(pre)) =>
        LET S == CardsOf(pre) IN
        /\ Len(ret) = Len(S)
        /\ \A i \in 1..Len(S) :
            /\ SameFields(ret[i], S[i])
            /\ HasId(S[i]) => ret[i] = S[i]
            /\ ~HasId(S[i]) =>
                /\ HasId(ret[i])
                /\ \A j \in 1..Len(ret) :
                      j # i => Get(ret[j], "id") # Get(ret[i], "id")

\* a loadCards() call on an array that mixes a record with an id and a
\* legacy record
C2_Witness ==
    /\ op = "loadCards" /\ HoldsCards(pre)
    /\ Len(CardsOf(pre)) = 2 /\ Len(ret) = 2
    /\ \E i, j \in 1..2 : HasId(CardsOf(pre)[i]) /\ ~HasId(CardsOf(pre)[j])
    /\ AllHaveId(ret)

\* the stored array holds at least one record without an id
NeedsMigration(st) ==
    HoldsCards(st) /\ \E i \in 1..Len(CardsOf(st)) : ~HasId(CardsOf(st)[i])

\* C3: when loadCards migrates at least one legacy record it writes the
\* migrated array back; when that write throws, loadCards does not throw and
\* still returns the whole migrated sequence, every record with an id; when
\* the write succeeds, the array stored is the sequence returned.
C3_WriteBack ==
    (op = "loadCards" /\ NeedsMigration(pre)) =>
        /\ err = NoException
        /\ Len(writes) = 1
        /\ Len(ret) = Len(CardsOf(pre))
        /\ AllHaveId(ret)
        /\ writes[1] = NoException => (HoldsArray(storage) /\ CardsOf(storage) = ret)

\* a loadCards() call that migrated two records and whose write-back threw
C3_Witness ==
    /\ op = "loadCards" /\ NeedsMigration(pre)
    /\ Len(writes) = 1 /\ writes[1] \in Rejections
    /\ Len(ret) = 2 /\ AllHaveId(ret) /\ storage = pre

\* C4: migration idempotence.  When every stored record already has an id,
\* two consecutive loadCards() calls return identical sequences.
C4_LoadIdempotent ==
    (op = "loadCards" /\ prev.valid /\ HoldsCards(prev.pre)
        /\ AllHaveId(CardsOf(prev.pre)))
    => (ret = prev.ret /\ ret = CardsOf(prev.pre))

\* the second of two consecutive loadCards() calls on two records with ids
C4_Witness ==
    /\ op = "loadCards" /\ prev.valid /\ HoldsCards(prev.pre)
    /\ AllHaveId(CardsOf(prev.pre)) /\ Len(prev.ret) = 2 /\ Len(ret) = 2

\* C5 as claimed: for every stored array of card records, loadCards returns
\* (and its migration pass stores) no two records with the same id.
C5_UniqueIdsAnyArray ==
    (op = "loadCards" /\ HoldsCards(pre)) =>
        /\ DistinctIds(ret)
        /\ writes = <<NoException>> => DistinctIds(CardsOf(storage))

\* C5, amended: for every stored array of card records in which the ids
\* already present are pairwise distinct, loadCards returns (and its
\* migration pass stores) no two records with the same id.
C5_UniqueIds ==
    (op = "loadCards" /\ HoldsCards(pre) /\ DistinctIds(CardsOf(pre))) =>
        /\ AllHaveId(ret)
        /\ DistinctIds(ret)
        /\ writes = <<NoException>> =>
              (AllHaveId(CardsOf(storage)) /\ DistinctIds(CardsOf(storage)))

\* a loadCards() call that migrated two legacy records and stored them
C5_Witness ==
    /\ op = "loadCards" /\ HoldsCards(pre) /\ Len(CardsOf(pre)) = 2
    /\ \A i \in 1..2 : ~HasId(CardsOf(pre)[i])
    /\ writes = <<NoException>>
    /\ Len(ret) = 2 /\ Get(ret[1], "id") # Get(ret[2], "id")

\* the ids of cards, in order
IdsOf(cards) == [i \in 1..Len(cards) |-> Get(cards[i], "id")]

\* C6: the id of a card is immutable once assigned: a loadCards() call that
\* follows another one, with no change of the store between them, returns
\* every card with the id the earlier call returned for it, also for a legacy
\* record whose migration write-back failed.
C6_IdImmutable ==
    (op = "loadCards" /\ prev.valid) => IdsOf(ret) = IdsOf(prev.ret)

\* C7: when the stored array holds a null element among legacy records,
\* loadCards returns a non-empty sequence in which every non-null card has
\* an id.
C7_NullElementHandled ==
    (/\ op = "loadCards" /\ HoldsArray(pre)
     /\ \E i \in 1..Len(CardsOf(pre)) : CardsOf(pre)[i] = JNull
     /\ \E i \in 1..Len(CardsOf(pre)) :
            CardsOf(pre)[i].t = "obj" /\ ~HasId(CardsOf(pre)[i]))
    => (/\ ret # <<>>
        /\ \A i \in 1..Len(ret) : ret[i] # JNull => HasId(ret[i]))

(***************************************************************************)
(* createCard, saveCards, deleteCard                                       *)
(***************************************************************************)
\* the store holds a valid sequence: no item yet, or an array of card
\* records that all have ids
HoldsValidCards(st) ==
    \/ ~st.present
    \/ (HoldsCards(st) /\ AllHaveId(CardsOf(st)))

ValidCardsOf(st) == IF st.present THEN CardsOf(st) ELSE <<>>

\* C8: createCard(category, question, answer) on a store holding a valid
\* sequence S, the write accepted, leaves stored S followed by exactly one
\* new card with the given category, question and answer and an id that
\* differs from every id in S; the cards of S keep order and field values.
C8_CreateAppends ==
    (op = "createCard" /\ err = NoException /\ HoldsValidCards(pre)) =>
        LET S == ValidCardsOf(pre)
            T == CardsOf(storage)
        IN  /\ HoldsCards(storage)
            /\ Len(T) = Len(S) + 1
            /\ SubSeq(T, 1, Len(S)) = S
            /\ Get(T[Len(T)], "category") = JStr(arg.category)
            /\ Get(T[Len(T)], "question") = JStr(arg.question)
            /\ Get(T[Len(T)], "answer") = JStr(arg.answer)
            /\ Len(T[Len(T)].o) = 4
            /\ HasId(T[Len(T)])
            /\ \A i \in 1..Len(S) : Get(S[i], "id") # Get(T[Len(T)], "id")

\* a createCard call on a store of two cards with ids
C8_Witness ==
    /\ op = "createCard" /\ err = NoException
    /\ HoldsCards(pre) /\ Len(CardsOf(pre)) = 2 /\ AllHaveId(CardsOf(pre))
    /\ Len(CardsOf(storage)) = 3

\* the kind of a rejected write, and the kind of an error saveCards throws
RejectionKind(w) ==
    IF w.name = "QuotaExceededError" THEN "capacity"
    ELSE IF w.name = "SecurityError" THEN "access"
    ELSE "other"

ErrorKind(e) ==
    IF e = NoException THEN "none"
    ELSE IF e.message = QuotaMessage THEN "capacity"
    ELSE IF e.message = SecurityMessage THEN "access"
    ELSE "other"

\* C9: when the storage rejects the write of saveCards, createCard throws an
\* error whose kind is that of the rejection: capacity exceeded, access
\* denied and any other rejection give three different errors, and none is
\* swallowed.
C9_StorageErrorKinds ==
    (op = "createCard" /\ writes # <<>> /\ writes[Len(writes)] # NoException) =>
        /\ err # NoException
        /\ ErrorKind(err) = RejectionKind(writes[Len(writes)])

\* a createCard call whose write was rejected for access
C9_Witness ==
    /\ op = "createCard"
    /\ writes[Len(writes)].name = "SecurityError"
    /\ err.message = SecurityMessage

\* the record d is what the stored record c became: c itself when c had an
\* id, else c with an id
Kept(c, d) == SameFields(c, d) /\ HasId(d) /\ (HasId(c) => d = c)

\* C10: deleteCard with a string id, the write accepted, removes exactly
\* the first card whose id equals it and keeps all other cards in their
\* order; when no card has that id the stored sequence is unchanged and no
\* error is raised.
C10_DeleteById ==
    (op = "deleteCard" /\ ~arg.isNum /\ HoldsCards(pre)
        /\ writes[Len(writes)] = NoException) =>
        LET S == CardsOf(pre)
            T == CardsOf(storage)
            M == {i \in 1..Len(S) : Get(S[i], "id") = JStr(arg.id)}
        IN  /\ err = NoException
            /\ HoldsCards(storage)
            /\ IF M # {}
               THEN LET first == CHOOSE i \in M : \A j \in M : i <= j IN
                    /\ Len(T) = Len(S) - 1
                    /\ \A i \in 1..Len(T) :
                          Kept(IF i < first THEN S[i] ELSE S[i + 1], T[i])
               ELSE /\ Len(T) = Len(S)
                    /\ \A i \in 1..Len(T) : Kept(S[i], T[i])
                    /\ AllHaveId(S) => T = S

\* a deleteCard call with the id of the middle one of three cards
C10_Witness ==
    /\ op = "deleteCard" /\ ~arg.isNum /\ err = NoException
    /\ HoldsCards(pre) /\ Len(CardsOf(pre)) = 3
    /\ Get(CardsOf(pre)[2], "id") = JStr(arg.id)
    /\ Get(CardsOf(pre)[1], "id") # JStr(arg.id)
    /\ CardsOf(storage) = <<CardsOf(pre)[1], CardsOf(pre)[3]>>

\* C11: deleteCard with a numeric index i, the write accepted, removes the
\* card at position i when 0 <= i < length and keeps the others in order;
\* for every index outside that range the stored sequence keeps all its
\* cards, in order.
C11_DeleteByIndex ==
    (op = "deleteCard" /\ arg.isNum /\ HoldsCards(pre)
        /\ writes[Len(writes)] = NoException) =>
        LET S == CardsOf(pre)
            T == CardsOf(storage)
        IN  /\ err = NoException
            /\ HoldsCards(storage)
            /\ IF 0 <= arg.index /\ arg.index < Len(S)
               THEN /\ Len(T) = Len(S) - 1
                    /\ \A i \in 1..Len(T) :
                          Kept(IF i < arg.index + 1 THEN S[i] ELSE S[i + 1], T[i])
               ELSE /\ Len(T) = Len(S)
                    /\ \A i \in 1..Len(T) : Kept(S[i], T[i])

(***************************************************************************)
(* The store: what an operation may write and what it must leave.          *)
(***************************************************************************)
\* loadCards() called on its own
NextLoad == Load

SpecLoad == Init /\ [][NextLoad]_vars

\* C26: loadCards calls setItem if and only if at least one card it loaded
\* lacked an id in the item; when it makes no call the item is left as it
\* was, and it makes none when every stored card has an id or the item is
\* absent, is no JSON or is no array.
C26_WritesIffMigrated ==
    op = "loadCards" =>
        /\ (writes # <<>>) <=> (\E i \in 1..Len(ret) : ~HasId(CardsOf(pre)[i]))
        /\ writes = <<>> => storage = pre
        /\ (~HoldsArray(pre) \/ (HoldsCards(pre) /\ AllHaveId(CardsOf(pre))))
              => storage = pre

\* a loadCards() call that wrote two migrated records, followed by one that
\* found every card with an id and wrote nothing
C26_Witness ==
    /\ op = "loadCards" /\ prev.valid
    /\ NeedsMigration(prev.pre) /\ prev.writes = <<NoException>>
    /\ Len(ret) = 2 /\ AllHaveId(CardsOf(pre))
    /\ writes = <<>> /\ storage = pre

\* the value under the storage key is there and loadCards cannot read it as
\* an array: it is no JSON, or JSON that is no array
Unreadable(st) == st.present /\ st.text # <<>> /\ ~HoldsArray(st)

\* C29: when the stored value is corrupt or no array, createCard and
\* deleteCard leave that value in place.
C29_UnreadableKept ==
    (op \in {"createCard", "deleteCard"} /\ Unreadable(pre)) => storage = pre

(***************************************************************************)
(* Strings as sequences of characters.                                     *)
(***************************************************************************)
\* the store of the card operations
store == <<storage, idCount, op, arg, ret, err, writes, pre, prev, steps>>

\* a store nothing was written to and no operation was called on
StoreEmpty ==
    /\ storage = NoItem
    /\ idCount = 0
    /\ op = ""
    /\ arg = NoArg
    /\ ret = <<>>
    /\ err = NoException
    /\ writes = <<>>
    /\ pre = NoItem
    /\ prev = NoPrev
    /\ steps = 0

\* the i-th character of s, counted from 1
Char(s, i) == SubSeq(s, i, i)

\* U+007F
DEL == ""

\* the characters of [\x00-\x1F\x7F] the inputs are written with
ControlChars == {"\t", "\n", "\f", "\r", DEL}

\* the characters String.prototype.trim removes and \s matches, of those
\* the inputs are written with
WhiteSpace == {" ", "\t", "\n", "\f", "\r"}

RECURSIVE StringsOf(_, _)
\* the strings of at most n characters of chars
StringsOf(chars, n) ==
    IF n = 0 THEN {""}
    ELSE LET shorter == StringsOf(chars, n - 1) IN
         shorter \cup {c \o s : c \in chars, s \in shorter}

RECURSIVE StripControl(_)
\* text.replace(/[\x00-\x1F\x7F]/g, '')
StripControl(s) ==
    IF s = "" THEN ""
    ELSE (IF Head(s) \in ControlChars THEN "" ELSE Head(s)) \o StripControl(Tail(s))

RECURSIVE TrimStart(_)
TrimStart(s) ==
    IF s # "" /\ Head(s) \in WhiteSpace THEN TrimStart(Tail(s)) ELSE s

RECURSIVE TrimEnd(_)
TrimEnd(s) ==
    IF s # "" /\ Char(s, Len(s)) \in WhiteSpace
    THEN TrimEnd(SubSeq(s, 1, Len(s) - 1))
    ELSE s

\* s.trim()
Trim(s) == TrimEnd(TrimStart(s))

\* s.substring(0, end)
Substring(s, end) ==
    SubSeq(s, 1, IF end < 0 THEN 0 ELSE IF end < Len(s) THEN end ELSE Len(s))

(***************************************************************************)
(* sanitizeInput                                                           *)
(***************************************************************************)
\* the default of maxLength
DefaultMaxLength == 1000

\* sanitizeInput(text, maxLength)
SanitizeInput(text, maxLength) ==
    IF text = "" THEN ""
    ELSE Substring(Trim(StripControl(text)), maxLength)

\* longest text given to sanitizeInput
MaxText == 3

SanitizeChars == {"a", " ", "\n", DEL}

SanitizeArgs ==
    [text : StringsOf(SanitizeChars, MaxText),
     maxLength : (0..MaxText) \cup {DefaultMaxLength}]

InitSanitize ==
    /\ StoreEmpty
    /\ ImportClosed
    /\ PageLoaded
    /\ fn = ""
    /\ args \in SanitizeArgs
    /\ result = <<>>

\* sanitizeInput(text, maxLength)
Sanitize ==
    /\ result = <<>>
    /\ fn' = "sanitizeInput"
    /\ result' = <<SanitizeInput(args.text, args.maxLength)>>
    /\ UNCHANGED <<args, store, import, page>>

\* sanitizeInput applied to what the first call returned, with the same
\* maxLength
SanitizeAgain ==
    /\ fn = "sanitizeInput" /\ Len(result) = 1
    /\ result' = Append(result, SanitizeInput(result[1], args.maxLength))
    /\ UNCHANGED <<fn, args, store, import, page>>

NextSanitize == Sanitize \/ SanitizeAgain

SpecSanitize == InitSanitize /\ [][NextSanitize]_vars

\* C17: sanitizeInput is idempotent: for every string x and every maxLength,
\* sanitizeInput(sanitizeInput(x, maxLength), maxLength) equals
\* sanitizeInput(x, maxLength).
C17_SanitizeIdempotent ==
    (fn = "sanitizeInput" /\ Len(result) = 2) => result[2] = result[1]

(***************************************************************************)
(* parseTextToCards                                                        *)
(***************************************************************************)
MAX_IMPORT_TEXT_LENGTH == 100000

\* the category of an import when the category input is empty ('英単語',
\* written in Latin letters)
DefaultImportCategory == "eitango"

\* the characters of /[→:：\-－]/ the inputs are written with: the colon
\* and the hyphen-minus
Separators == {":", "-"}

RECURSIVE Split(_, _, _)
\* s.split(sep) for a pattern that matches one character of seps: the
\* segments between the matches, cur being the segment read so far
Split(s, seps, cur) ==
    IF s = "" THEN <<cur>>
    ELSE IF Head(s) \in seps THEN <<cur>> \o Split(Tail(s), seps, "")
    ELSE Split(Tail(s), seps, cur \o Head(s))

RECURSIVE SplitRuns(_, _, _)
\* s.split(/[\s\t]+/): the segments between the longest runs of seps
SplitRuns(s, seps, cur) ==
    IF s = "" THEN <<cur>>
    ELSE IF Head(s) \in seps
    THEN <<cur>> \o SplitRuns(TrimStart(s), seps, "")
    ELSE SplitRuns(Tail(s), seps, cur \o Head(s))

\* .map(p => p.trim()).filter(p => p.length > 0)
TrimmedNonEmpty(parts) ==
    SelectSeq([i \in 1..Len(parts) |-> Trim(parts[i])], LAMBDA part : part # "")

RECURSIVE Join(_, _)
\* parts.join(glue)
Join(parts, glue) ==
    IF parts = <<>> THEN ""
    ELSE IF Len(parts) = 1 THEN parts[1]
    ELSE parts[1] \o glue \o Join(Tail(parts), glue)

\* separators.test(line)
HasSeparator(line) == \E i \in 1..Len(line) : Char(line, i) \in Separators

\* line.split(/[\s\t]+/) with its parts trimmed and the empty ones dropped
Words(line) == TrimmedNonEmpty(SplitRuns(line, WhiteSpace, ""))

RECURSIVE ParseLines(_, _, _, _, _)
\* the loop over lines from line i on (counted from 1), n identifiers drawn
\* and cards pushed so far
ParseLines(lines, i, category, n, cards) ==
    IF i > Len(lines) THEN [cards |-> cards, n |-> n]
    ELSE LET line == lines[i]
             sepParts == TrimmedNonEmpty(Split(line, Separators, ""))
             parts == Words(line)
         IN  IF HasSeparator(line) /\ Len(sepParts) >= 2
             THEN ParseLines(lines, i + 1, category, n + 1,
                     Append(cards, NewCard(n + 1, category, sepParts[1],
                                           Join(Tail(sepParts), " "))))
             ELSE IF Len(parts) >= 2
             THEN ParseLines(lines, i + 1, category, n + 1,
                     Append(cards, NewCard(n + 1, category, parts[1],
                                           Join(Tail(parts), " "))))
             ELSE IF Len(parts) = 1 /\ i + 1 <= Len(lines)
                     /\ Len(Words(lines[i + 1])) = 1
             THEN ParseLines(lines, i + 2, category, n + 1,
                     Append(cards, NewCard(n + 1, category, parts[1],
                                           Words(lines[i + 1])[1])))
             ELSE ParseLines(lines, i + 1, category, n, cards)

\* parseTextToCards(text), categoryInput being the value of the element
\* import-category-input and n the identifiers drawn before the call
ParseTextToCards(categoryInput, text, n) ==
    LET categoryRaw == IF Trim(categoryInput) # "" THEN Trim(categoryInput)
                       ELSE DefaultImportCategory
        category == SanitizeInput(categoryRaw, DefaultMaxLength)
        sanitizedText == SanitizeInput(text, MAX_IMPORT_TEXT_LENGTH)
        lines == TrimmedNonEmpty(Split(sanitizedText, {"\n"}, ""))
    IN  ParseLines(lines, 1, category, n, <<>>)

\* most questions and answers in one line, most lines in one text
MaxWords == 2

MaxLines == 2

ParseWords == {"x", "y"}

\* what stands between two words of a line
Delimiters == {":", "-", " ", "\t", "  "}

\* what stands between two lines: a line break, or two with an empty line
LineBreaks == {"\n", "\n\n"}

\* a line: its words and the delimiters between them
ParseLine(words, delims) == [words |-> words, delims |-> delims]

InputLines ==
    UNION {{ParseLine(w, d) : w \in [1..k -> ParseWords], d \in [1..(k - 1) -> Delimiters]} :
             k \in 1..MaxWords}

RECURSIVE LineText(_)
\* the characters of a line
LineText(line) ==
    IF Len(line.words) = 1 THEN line.words[1]
    ELSE line.words[1] \o line.delims[1]
         \o LineText(ParseLine(Tail(line.words), Tail(line.delims)))

RECURSIVE TextOf(_, _)
\* the characters of a text: its lines with the line breaks between them
TextOf(lines, breaks) ==
    IF lines = <<>> THEN ""
    ELSE IF Len(lines) = 1 THEN LineText(lines[1])
    ELSE LineText(lines[1]) \o breaks[1] \o TextOf(Tail(lines), Tail(breaks))

\* values of the category input
CategoryInputs == {"", " ", "c", " c ", DEL, "c" \o DEL}

ParseArgs ==
    UNION {{[category |-> c, lines |-> l, text |-> TextOf(l, b)] :
              c \in CategoryInputs, l \in [1..k -> InputLines],
              b \in [1..(k - 1) -> LineBreaks]} : k \in 0..MaxLines}

InitParse ==
    /\ StoreEmpty
    /\ ImportClosed
    /\ PageLoaded
    /\ fn = ""
    /\ args \in ParseArgs
    /\ result = <<>>

\* parseTextToCards(text)
Parse ==
    /\ fn = ""
    /\ fn' = "parseTextToCards"
    /\ result' = ParseTextToCards(args.category, args.text, 0).cards
    /\ UNCHANGED <<args, store, import, page>>

NextParse == Parse

SpecParse == InitParse /\ [][NextParse]_vars

\* the card has this question and this answer
Asks(card, question, answer) ==
    Get(card, "question") = JStr(question) /\ Get(card, "answer") = JStr(answer)

\* every delimiter of the line is of delims
DelimitedBy(line, delims) == \A i \in 1..Len(line.delims) : line.delims[i] \in delims

\* C13: for text made of k non-empty lines separated by newline characters
\* (possibly with empty lines between them), each of the form q<sep>a with
\* <sep> a separator character, parseTextToCards returns k cards in line
\* order, the i-th with question q_i and answer a_i.
C13_SeparatorLines ==
    (/\ fn = "parseTextToCards"
     /\ \A i \in 1..Len(args.lines) :
          Len(args.lines[i].words) >= 2 /\ DelimitedBy(args.lines[i], Separators))
    => /\ Len(result) = Len(args.lines)
       /\ \A i \in 1..Len(args.lines) :
            Asks(result[i], args.lines[i].words[1],
                 Join(Tail(args.lines[i].words), " "))

\* C14: one line without separator characters, of two or more tokens
\* separated by runs of spaces or tabs, yields exactly one card whose
\* question is the first token and whose answer is the remaining tokens
\* joined by single spaces.
C14_WhitespaceLine ==
    (/\ fn = "parseTextToCards"
     /\ Len(args.lines) = 1
     /\ Len(args.lines[1].words) >= 2
     /\ DelimitedBy(args.lines[1], {" ", "\t", "  "}))
    => /\ Len(result) = 1
       /\ Asks(result[1], args.lines[1].words[1],
               Join(Tail(args.lines[1].words), " "))

\* C15: paired lines.  When a line is a single token and the next line is a
\* single token too, parseTextToCards emits one card with the first as
\* question and the second as answer and consumes both, so 2k single-token
\* lines give k cards.
C15_PairedLines ==
    (/\ fn = "parseTextToCards"
     /\ Len(args.lines) = 2
     /\ \A i \in 1..2 : Len(args.lines[i].words) = 1)
    => /\ Len(result) = 1
       /\ Asks(result[1], args.lines[1].words[1], args.lines[2].words[1])

\* C16: every card parseTextToCards produces carries the resolved category:
\* the sanitized category input, or the default category whenever the input
\* is empty after sanitizing and trimming; no card has an empty category.
C16_Category ==
    fn = "parseTextToCards" =>
        \A i \in 1..Len(result) :
            /\ Get(result[i], "category") # JStr("")
            /\ Get(result[i], "category") =
                 JStr(IF SanitizeInput(args.category, DefaultMaxLength) = ""
                      THEN DefaultImportCategory
                      ELSE SanitizeInput(args.category, DefaultMaxLength))

(***************************************************************************)
(* Entering cards: the add view, the import view and its preview, and the  *)
(* delete buttons of the list view, from an empty store.                   *)
(***************************************************************************)
\* user events in one run
MaxEvents == 5

\* what an event handler leaves in the store: r is what its last store call
\* leaves (an error it throws is caught by the handler and shown)
Handled(name, r) ==
    /\ steps' = steps + 1
    /\ op' = name
    /\ arg' = NoArg
    /\ pre' = storage
    /\ prev' = NoPrev
    /\ storage' = r.storage
    /\ idCount' = r.n
    /\ err' = r.exc
    /\ writes' = r.writes
    /\ ret' = r.cards
    /\ UNCHANGED <<call, page>>

\* a handler that makes no store call
NoStoreCall == Result(NoException, <<>>, storage, idCount, <<>>)

\* renderListView(): it calls loadCards(), whose write-back has outcome w
RenderListView(w) == LoadCards(storage, idCount, w)

\* show-list-btn, cancel-add-btn and cancel-import-btn: renderListView()
ShowList ==
    /\ steps < MaxEvents
    /\ view \in {"home-view", "add-view", "import-view"}
    /\ \E w \in WriteBackOutcomes : Handled("renderListView", RenderListView(w))
    /\ view' = "list-view"
    /\ UNCHANGED <<extractedCards, saveBtn>>

\* add-from-list-btn: initAddView()
ShowAdd ==
    /\ steps < MaxEvents
    /\ view = "list-view"
    /\ Handled("initAddView", NoStoreCall)
    /\ view' = "add-view"
    /\ UNCHANGED <<extractedCards, saveBtn>>

\* values of the question and answer inputs of the add view
QuestionInputs == {"", " ", " q7 "}

AnswerInputs == {"", "a7"}

AddCategoryInputs == {"", "c"}

\* the category of a card saved with an empty category input ('未分類',
\* written in Latin letters)
DefaultCategory == "mibunrui"

\* save-card-btn: the handler with the values of the three inputs
SaveCardRun(categoryInput, questionInput, answerInput, w1, w2) ==
    LET category == Trim(categoryInput)
        question == Trim(questionInput)
        answer == Trim(answerInput)
        finalCategory == IF category # "" THEN category ELSE DefaultCategory
    IN  IF question = "" \/ answer = "" THEN NoStoreCall
        ELSE CreateCardRun(idCount, finalCategory, question, answer,
                           LoadCards(storage, idCount + 1, w1), w2)

SaveCard ==
    /\ steps < MaxEvents
    /\ view = "add-view"
    /\ \E c \in AddCategoryInputs, q \in QuestionInputs, a \in AnswerInputs,
          w1 \in WriteBackOutcomes, w2 \in SetItemOutcomes :
            Handled("saveCard", SaveCardRun(c, q, a, w1, w2))
    /\ UNCHANGED import

\* import-from-list-btn: initImportView()
OpenImport ==
    /\ steps < MaxEvents
    /\ view = "list-view"
    /\ Handled("initImportView", NoStoreCall)
    /\ view' = "import-view"
    /\ extractedCards' = <<>>
    /\ saveBtn' = FALSE

\* what performOCR settles with: text, or an error
OcrText(text) == [ok |-> TRUE, text |-> text]

OcrError == [ok |-> FALSE, text |-> ""]

OcrOutcomes == {OcrText("x-y"), OcrText("x y\nz:w"), OcrText("x"), OcrError}

\* values of the category input of the import view
ImportCategoryInputs == {DefaultImportCategory, DEL}

\* card && card.question && card.answer && card.category
ValidCard(card) ==
    /\ card.t = "obj"
    /\ ~Falsy(Get(card, "question"))
    /\ ~Falsy(Get(card, "answer"))
    /\ ~Falsy(Get(card, "category"))

\* process-image-btn: one run of the handler from the click to the end of
\* its finally block, performOCR settling with ocr.  The preview is emptied
\* first; it gets its cards and the save button when there are valid cards.
ProcessImageRun(categoryInput, ocr, n) ==
    IF ~ocr.ok THEN [extractedCards |-> <<>>, saveBtn |-> FALSE, n |-> n]
    ELSE LET parsed == ParseTextToCards(categoryInput, ocr.text, n)
             validCards == SelectSeq(parsed.cards, ValidCard)
         IN  IF parsed.cards = <<>>
             THEN [extractedCards |-> <<>>, saveBtn |-> FALSE, n |-> parsed.n]
             ELSE IF validCards = <<>>
             THEN [extractedCards |-> <<>>, saveBtn |-> FALSE, n |-> parsed.n]
             ELSE [extractedCards |-> validCards, saveBtn |-> TRUE, n |-> parsed.n]

ProcessImage ==
    /\ steps < MaxEvents
    /\ view = "import-view"
    /\ \E c \in ImportCategoryInputs, ocr \in OcrOutcomes :
         LET run == ProcessImageRun(c, ocr, idCount) IN
         /\ Handled("processImage", Result(NoException, <<>>, storage, run.n, <<>>))
         /\ extractedCards' = run.extractedCards
         /\ saveBtn' = run.saveBtn
    /\ UNCHANGED view

\* what the user leaves in an input of the preview
PreviewValues == {"", " e "}

\* the input handler of a preview input, when its debounce timer fires:
\* extractedCards[index][field] = sanitizeInput(e.target.value)
PreviewInput ==
    /\ steps < MaxEvents
    /\ view = "import-view"
    /\ \E index \in 1..Len(extractedCards), field \in {"question", "answer"},
          value \in PreviewValues :
         extractedCards' =
            [extractedCards EXCEPT ![index] =
                JObj(Put(extractedCards[index].o, field,
                         JStr(SanitizeInput(value, DefaultMaxLength))))]
    /\ Handled("previewInput", NoStoreCall)
    /\ UNCHANGED <<saveBtn, view>>

\* a delete button of the preview, confirmed: the card is spliced out and
\* displayImportPreview writes the preview anew, without the save button
PreviewDelete ==
    /\ steps < MaxEvents
    /\ view = "import-view"
    /\ \E index \in 1..Len(extractedCards) :
         extractedCards' = Splice(extractedCards, index - 1)
    /\ saveBtn' = FALSE
    /\ Handled("previewDelete", NoStoreCall)
    /\ UNCHANGED view

\* saveExtractedCards(): loadCards(), push every extracted card, saveCards
SaveExtractedCardsRun(w1, w2) ==
    LET l == LoadCards(storage, idCount, w1) IN
    SaveCards(l, l.cards \o extractedCards, w2)

\* the save button of the preview: saveExtractedCards(), which ends in
\* renderListView() when the write is accepted
SaveAll ==
    /\ steps < MaxEvents
    /\ view = "import-view" /\ saveBtn
    /\ \E w1 \in WriteBackOutcomes, w2 \in SetItemOutcomes :
         LET r == SaveExtractedCardsRun(w1, w2) IN
         /\ Handled("saveExtractedCards", r)
         /\ view' = IF r.exc = NoException THEN "list-view" ELSE view
    /\ UNCHANGED <<extractedCards, saveBtn>>

\* a delete button of the list view, confirmed: deleteCard(card.id) for a
\* card of the list, then renderListView()
DeleteListed ==
    /\ steps < MaxEvents
    /\ view = "list-view"
    /\ HoldsCards(storage)
    /\ \E i \in 1..Len(CardsOf(storage)), w1 \in WriteBackOutcomes,
          w2 \in SetItemOutcomes :
         Handled("deleteListed",
                 DeleteCardRun(StrArg(Get(CardsOf(storage)[i], "id").s),
                               LoadCards(storage, idCount, w1), w2))
    /\ UNCHANGED import

InitEntry == StoreEmpty /\ ImportClosed /\ NotApplied /\ PageLoaded

NextEntry ==
    \/ ShowList
    \/ ShowAdd
    \/ SaveCard
    \/ OpenImport
    \/ ProcessImage
    \/ PreviewInput
    \/ PreviewDelete
    \/ SaveAll
    \/ DeleteListed

SpecEntry == InitEntry /\ [][NextEntry]_vars

\* the card has a non-empty question and a non-empty answer
Answerable(card) ==
    /\ Get(card, "question").t = "str" /\ Get(card, "question").s # ""
    /\ Get(card, "answer").t = "str" /\ Get(card, "answer").s # ""

\* C12: every card of the persisted sequence has a non-empty question and a
\* non-empty answer after any sequence of manual saves, bulk-import saves
\* (with edits made in the import preview) and deletions, from an empty
\* store.
C12_NonEmptyFields ==
    HoldsArray(storage) =>
        \A i \in 1..Len(CardsOf(storage)) : Answerable(CardsOf(storage)[i])

(***************************************************************************)
(* parseSubscriptSuperscript.  The text it works on is kept with a mark on *)
(* every character: own[i] tells whether the i-th character was written   *)
(* as part of a wrapper tag by one of the four replacements (TRUE), or     *)
(* stems from the escaped argument (FALSE).                                *)
(***************************************************************************)
Marked(s, own) == [s |-> s, own |-> own]

\* str with every character marked by
Written(str, by) == Marked(str, [i \in 1..Len(str) |-> by])

Cat(x, y) == Marked(x.s \o y.s, x.own \o y.own)

\* the characters from..to of x
Part(x, from, to) == Marked(SubSeq(x.s, from, to), SubSeq(x.own, from, to))

\* the characters of x from the one at from on
Rest(x, from) == Part(x, from, Len(x.s))

\* what innerHTML gives for one character of textContent
EscapeChar(c) ==
    IF c = "&" THEN "&amp;"
    ELSE IF c = "<" THEN "&lt;"
    ELSE IF c = ">" THEN "&gt;"
    ELSE c

RECURSIVE EscapeHtml(_)
\* escapeHtml leaving the text as it is
EscapeHtmlNothing(text) == text

\* escapeHtml(text)
EscapeHtml(text) ==
    IF text = "" THEN ""
    ELSE EscapeChar(Head(text)) \o EscapeHtml(Tail(text))

OpenTag(class) == "<span class=\"" \o class \o "\">"

CloseTag == "</span>"

\* '<span class="...">$1</span>' with inner for $1
Wrapper(class, inner) ==
    Cat(Cat(Written(OpenTag(class), TRUE), inner), Written(CloseTag, TRUE))

\* the characters the dot of a pattern does not match, of those the inputs
\* are written with
LineTerminators == {"\n", "\r"}

\* the least number of a non-empty set of numbers
Least(S) == CHOOSE k \in S : \A j \in S : k <= j

RECURSIVE ReplaceBraced(_, _, _)
\* x.replace(/\^\{([^}]+)\}/g, wrapper) for marker "^", and the same with
\* "_".  The pattern matches at i when a marker stands there, then "{", one
\* or more characters other than "}", and "}"; the leftmost match is
\* replaced and the search goes on behind it.
ReplaceBraced(x, marker, class) ==
    LET matches == {i \in 1..(Len(x.s) - 3) :
                      /\ Char(x.s, i) = marker
                      /\ Char(x.s, i + 1) = "{"
                      /\ Char(x.s, i + 2) # "}"
                      /\ \E k \in (i + 3)..Len(x.s) : Char(x.s, k) = "}"}
        first == Least(matches)
        close == Least({k \in (first + 3)..Len(x.s) : Char(x.s, k) = "}"})
    IN  IF matches = {} THEN x
        ELSE Cat(Cat(Part(x, 1, first - 1),
                     Wrapper(class, Part(x, first + 2, close - 1))),
                 ReplaceBraced(Rest(x, close + 1), marker, class))

RECURSIVE ReplaceSingle(_, _, _)
\* x.replace(/\^(.)/g, wrapper) for marker "^", and the same with "_": the
\* pattern matches at i when a marker stands there and a character the dot
\* matches follows
ReplaceSingle(x, marker, class) ==
    LET matches == {i \in 1..(Len(x.s) - 1) :
                      /\ Char(x.s, i) = marker
                      /\ Char(x.s, i + 1) \notin LineTerminators}
        first == Least(matches)
    IN  IF matches = {} THEN x
        ELSE Cat(Cat(Part(x, 1, first - 1),
                     Wrapper(class, Part(x, first + 1, first + 1))),
                 ReplaceSingle(Rest(x, first + 2), marker, class))

\* parseSubscriptSuperscript(text): s is the string it returns
ParseSubscriptSuperscript(text) ==
    LET escaped == Written(EscapeHtml(text), FALSE)
        supBraced == ReplaceBraced(escaped, "^", "superscript")
        supSingle == ReplaceSingle(supBraced, "^", "superscript")
        subBraced == ReplaceBraced(supSingle, "_", "subscript")
    IN  ReplaceSingle(subBraced, "_", "subscript")

\* longest text given to parseSubscriptSuperscript
MaxMarkup == 4

MarkupChars == {"a", "^", "_", "{", "}", "<"}

InitMarkup ==
    /\ StoreEmpty
    /\ ImportClosed
    /\ PageLoaded
    /\ fn = ""
    /\ args \in [text : StringsOf(MarkupChars, MaxMarkup)]
    /\ result = <<>>

\* parseSubscriptSuperscript(text)
Render ==
    /\ fn = ""
    /\ fn' = "parseSubscriptSuperscript"
    /\ result' = ParseSubscriptSuperscript(args.text)
    /\ UNCHANGED <<args, store, import, page>>

NextMarkup == Render

SpecMarkup == InitMarkup /\ [][NextMarkup]_vars

\* C18: parseSubscriptSuperscript escapes its input before any marker
\* substitution: every "<" and ">" of the string it returns was written as
\* part of a wrapper tag by the transformer itself, none stems from the
\* input, whose "<" arrive as "&lt;".
C18_EscapedFirst ==
    fn = "parseSubscriptSuperscript" =>
        \A i \in 1..Len(result.s) :
            Char(result.s, i) \in {"<", ">"} => result.own[i]

\* a text with "<" inside a braced superscript: the wrapper holds "&lt;"
C18_Witness ==
    /\ fn = "parseSubscriptSuperscript"
    /\ args.text = "^{<}"
    /\ result.s = OpenTag("superscript") \o "&lt;" \o CloseTag

\* the string the claim gives for a marker followed by inner
Wrapped(marker, inner) ==
    OpenTag(IF marker = "^" THEN "superscript" ELSE "subscript")
    \o EscapeHtml(inner) \o CloseTag

\* C19: "^{run}" becomes a superscript wrapper around the whole run, "^c" a
\* superscript wrapper around exactly the one character c that follows "^"
\* in the input, "_{run}" and "_c" subscript wrappers likewise, and a "^" or
\* "_" with nothing after it stays a literal character.
C19_Markers ==
    fn = "parseSubscriptSuperscript" =>
        \A marker \in {"^", "_"} :
            /\ args.text = marker => result.s = marker
            /\ \A c \in MarkupChars :
                 args.text = marker \o c => result.s = Wrapped(marker, c)
            /\ \A run \in StringsOf({"a", "<"}, MaxMarkup) :
                 (run # "" /\ args.text = marker \o "{" \o run \o "}")
                     => result.s = Wrapped(marker, run)

(***************************************************************************)
(* shuffleCards.  The arrays live in a heap: cards is the array of the     *)
(* caller, copy the array a spread allocates; a local names one of them.   *)
(***************************************************************************)
\* const shuffled = cards: the local names the caller's array
SpreadAlias(heap) == [ref |-> "cards", heap |-> heap]

\* const shuffled = [...cards]: the local names a new array with the
\* elements of cards
Spread(heap) == [ref |-> "copy", heap |-> [heap EXCEPT !.copy = heap.cards]]

\* [a[i], a[j]] = [a[j], a[i]], i and j counted from 0
Swap(a, i, j) == [a EXCEPT ![i + 1] = a[j + 1], ![j + 1] = a[i + 1]]

RECURSIVE ShuffleLoop(_, _, _, _)
\* the for loop from i down to 1: draws[i] is
\* Math.floor(Math.random() * (i + 1)), a number of 0..i
ShuffleLoop(heap, ref, i, draws) ==
    IF i > 0
    THEN ShuffleLoop([heap EXCEPT ![ref] = Swap(heap[ref], i, draws[i])],
                     ref, i - 1, draws)
    ELSE heap

\* shuffleCards(cards) with these draws: the array it returns, and the
\* array of the caller after the call
ShuffleCards(cards, draws) ==
    LET shuffled == Spread([cards |-> cards, copy |-> <<>>])
        heap == ShuffleLoop(shuffled.heap, shuffled.ref, Len(cards) - 1, draws)
    IN  [shuffled |-> heap[shuffled.ref], cards |-> heap.cards]

\* longest array given to shuffleCards
MaxCards == 3

\* the elements of the arrays
ShuffleElements == {"a", "b", "c"}

\* the draws of one call on n elements: one number of 0..i for every i of
\* 1..n-1
Draws(n) == {d \in [1..(n - 1) -> 0..(n - 1)] : \A i \in 1..(n - 1) : d[i] <= i}

InitShuffle ==
    /\ StoreEmpty
    /\ ImportClosed
    /\ PageLoaded
    /\ fn = ""
    /\ args \in UNION {[cards : [1..n -> ShuffleElements]] : n \in 0..MaxCards}
    /\ result = <<>>

\* shuffleCards(cards)
Shuffle ==
    /\ fn = ""
    /\ fn' = "shuffleCards"
    /\ \E draws \in Draws(Len(args.cards)) :
         result' = ShuffleCards(args.cards, draws)
    /\ UNCHANGED <<args, store, import, page>>

NextShuffle == Shuffle

SpecShuffle == InitShuffle /\ [][NextShuffle]_vars

\* the arrangements of the elements of a: every element exactly once
Arrangements(a) ==
    {[i \in 1..Len(a) |-> a[p[i]]] :
        p \in {q \in [1..Len(a) -> 1..Len(a)] :
                 \A i, j \in 1..Len(a) : i # j => q[i] # q[j]}}

\* C20: for every input sequence, the results shuffleCards can return over
\* all choices of its random draws are exactly the arrangements of the
\* input, each element exactly once, and the input sequence is left as it
\* was.
C20_ShufflePermutes ==
    fn = "shuffleCards" =>
        /\ result.cards = args.cards
        /\ result.shuffled \in Arrangements(args.cards)
        /\ {ShuffleCards(args.cards, d).shuffled : d \in Draws(Len(args.cards))}
              = Arrangements(args.cards)

\* a call that returned three different elements in reverse order
C20_Witness ==
    /\ fn = "shuffleCards"
    /\ args.cards = <<"a", "b", "c">>
    /\ result.shuffled = <<"c", "b", "a">>
    /\ result.cards = <<"a", "b", "c">>

(***************************************************************************)
(* Two execution contexts (tabs) on one item.  Each runs createCard once;  *)
(* the calls on localStorage of the two interleave: the getItem of         *)
(* loadCards, the setItem of its write-back, the setItem of saveCards.     *)
(***************************************************************************)
Contexts == {"tab1", "tab2"}

\* a context before its createCard call
Idle ==
    [pc |-> "idle", card |-> Undefined, cards |-> <<>>, exc |-> NoException,
     readAt |-> 0, savedAt |-> 0]

\* the saveCards writes accepted so far
Saves == Cardinality({c \in Contexts : contexts[c].savedAt > 0})

InitContexts ==
    /\ storage \in InitialItems
    /\ idCount = 0
    /\ op = ""
    /\ arg = NoArg
    /\ ret = <<>>
    /\ err = NoException
    /\ writes = <<>>
    /\ pre = NoItem
    /\ prev = NoPrev
    /\ steps = 0
    /\ ImportClosed
    /\ NotApplied
    /\ contexts = [c \in Contexts |-> Idle]
    /\ NoOcr /\ NoDebounce /\ NoQuiz

\* what a step of a context leaves alone
ContextFrame ==
    UNCHANGED <<op, arg, ret, err, writes, pre, prev, steps, import, call,
                processing, timing, quiz>>

\* createCard in context c up to the getItem of its loadCards() call: the
\* card is built, the item is read, parsed and migrated
ContextLoad(c) ==
    /\ contexts[c].pc = "idle"
    /\ \E category \in NewCategories, question \in NewQuestions,
          answer \in NewAnswers :
         LET l == LoadCards(storage, idCount + 1, NoException) IN
         /\ contexts' =
              [contexts EXCEPT ![c] =
                 [pc |-> IF l.writes # <<>> THEN "migrated" ELSE "loaded",
                  card |-> NewCard(idCount + 1, category, question, answer),
                  cards |-> l.cards, exc |-> NoException,
                  readAt |-> Saves, savedAt |-> 0]]
         /\ idCount' = l.n
    /\ UNCHANGED storage
    /\ ContextFrame

\* the write-back of the loadCards() call of context c
ContextWriteBack(c) ==
    /\ contexts[c].pc = "migrated"
    /\ \E w \in SetItemOutcomes :
         storage' = SetItem(storage, Stringify(JArr(contexts[c].cards)), w)
    /\ contexts' = [contexts EXCEPT ![c].pc = "loaded"]
    /\ UNCHANGED idCount
    /\ ContextFrame

\* cards.push(card) on the array the context loaded earlier, but pushing on
\* the array stored at the time of the push
PushedOnStored(ctx) ==
    Append(IF HoldsArray(storage) THEN CardsOf(storage) ELSE <<>>, ctx.card)

\* cards.push(card) in a context: the array it passes to saveCards
Pushed(ctx) == Append(ctx.cards, ctx.card)

\* cards.push(card) and saveCards(cards) of createCard in context c
ContextSave(c) ==
    /\ contexts[c].pc = "loaded"
    /\ \E w \in SetItemOutcomes :
         LET r == SaveCards(Result(NoException, contexts[c].cards, storage,
                                   idCount, <<>>),
                            Pushed(contexts[c]), w)
         IN  /\ storage' = r.storage
             /\ contexts' =
                  [contexts EXCEPT ![c].pc = "saved", ![c].exc = r.exc,
                      ![c].savedAt = IF w = NoException THEN Saves + 1 ELSE 0]
    /\ UNCHANGED idCount
    /\ ContextFrame

NextContexts ==
    \E c \in Contexts : ContextLoad(c) \/ ContextWriteBack(c) \/ ContextSave(c)

SpecContexts == InitContexts /\ [][NextContexts]_vars

\* both createCard calls are over, both writes were accepted, and the later
\* writer l read the item before the earlier writer e wrote
BothLoadedFirst(e, l) ==
    /\ \A c \in Contexts : contexts[c].pc = "saved"
    /\ contexts[e].savedAt > 0
    /\ contexts[l].savedAt > contexts[e].savedAt
    /\ contexts[l].readAt < contexts[e].savedAt
    /\ contexts[e].readAt < contexts[e].savedAt

\* C23: last writer wins.  When two contexts each run createCard and both
\* load before either persists, the sequence stored in the end is the one
\* the later writer wrote (what it loaded and its own card), and the card the
\* earlier writer added is not in it.
C23_LastWriterWins ==
    \A e, l \in Contexts :
        BothLoadedFirst(e, l) =>
            /\ HoldsArray(storage)
            /\ CardsOf(storage) = Append(contexts[l].cards, contexts[l].card)
            /\ \A i \in 1..Len(CardsOf(storage)) :
                  CardsOf(storage)[i] # contexts[e].card

\* both contexts loaded the one stored card before either saved: two cards
\* are stored where three were to be
C23_Witness ==
    \E e, l \in Contexts :
        /\ BothLoadedFirst(e, l)
        /\ Len(contexts[e].cards) = 1 /\ Len(contexts[l].cards) = 1
        /\ Len(CardsOf(storage)) = 2
        /\ SameFields(contexts[e].card, contexts[l].card)

(***************************************************************************)
(* The image processing of the import view.  The click handler of          *)
(* process-image-btn is an async function: it runs up to its               *)
(* await performOCR(...), and goes on when the request settles; any other  *)
(* handler can run in between.                                             *)
(***************************************************************************)
\* user events of the import view in one run
MaxOcrEvents == 8

InitOcr == StoreEmpty /\ ImportClosed /\ NotApplied /\ PageLoaded

\* what a handler of the import view leaves alone; every user event counts
OcrFrame ==
    UNCHANGED <<storage, op, arg, ret, err, writes, pre, prev, call, tabs,
                timing, quiz>>

\* a run of the click handler that awaits performOCR
Awaiting == [pc |-> "awaiting", failed |-> FALSE]

\* a run that is over: its finally block has run
Done(failed) == [pc |-> "done", failed |-> failed]

\* the OCR requests in flight
InFlight == Cardinality({i \in 1..Len(runs) : runs[i].pc = "awaiting"})

\* show-list-btn of the home view, cancel-import-btn: renderListView()
ListFromImport ==
    /\ steps < MaxOcrEvents
    /\ view \in {"home-view", "import-view"}
    /\ view' = "list-view"
    /\ steps' = steps + 1
    /\ UNCHANGED <<idCount, extractedCards, saveBtn, processing>>
    /\ OcrFrame

\* import-from-list-btn: initImportView()
InitImportView ==
    /\ steps < MaxOcrEvents
    /\ view = "list-view"
    /\ view' = "import-view"
    /\ selectedImage' = FALSE
    /\ extractedCards' = <<>>
    /\ isProcessingOCR' = FALSE
    /\ processBtn' = [disabled |-> TRUE]
    /\ saveBtn' = FALSE
    /\ steps' = steps + 1
    /\ UNCHANGED <<idCount, runs>>
    /\ OcrFrame

\* image-input change, the file read and the image loaded
SelectImage ==
    /\ steps < MaxOcrEvents
    /\ view = "import-view"
    /\ selectedImage' = TRUE
    /\ processBtn' = [disabled |-> FALSE]
    /\ steps' = steps + 1
    /\ UNCHANGED <<idCount, extractedCards, saveBtn, view, isProcessingOCR, runs>>
    /\ OcrFrame

\* process-image-btn click, up to the await: the two guards, the flag and
\* the button set, the preview emptied; extractRedText or resizeCanvas can
\* throw, and then the catch and the finally block run at once
ProcessClick ==
    /\ steps < MaxOcrEvents
    /\ view = "import-view"
    /\ ~processBtn.disabled
    /\ steps' = steps + 1
    /\ IF ~selectedImage \/ isProcessingOCR
       THEN UNCHANGED <<extractedCards, saveBtn, processing>>
       ELSE \/ /\ isProcessingOCR' = TRUE
               /\ processBtn' = [disabled |-> TRUE]
               /\ saveBtn' = FALSE
               /\ runs' = Append(runs, Awaiting)
               /\ UNCHANGED <<extractedCards, selectedImage>>
            \/ /\ extractedCards' = <<>>
               /\ saveBtn' = FALSE
               /\ isProcessingOCR' = FALSE
               /\ processBtn' = [disabled |-> FALSE]
               /\ runs' = Append(runs, Done(TRUE))
               /\ UNCHANGED selectedImage
    /\ UNCHANGED <<idCount, view>>
    /\ OcrFrame

\* the handler after the await, the flag being reset at the end of the try
\* block in place of a finally block
ProcessSettledNoFinally(categoryInput, ocr, n) ==
    LET run == ProcessImageRun(categoryInput, ocr, n) IN
    [extractedCards |-> run.extractedCards, saveBtn |-> run.saveBtn,
     n |-> run.n,
     isProcessingOCR |-> IF run.saveBtn THEN FALSE ELSE isProcessingOCR,
     processBtn |-> IF run.saveBtn THEN [disabled |-> FALSE] ELSE processBtn]

\* the handler after the await, performOCR having settled with ocr: the
\* rest of the try block or the catch, and the finally block
ProcessSettled(categoryInput, ocr, n) ==
    LET run == ProcessImageRun(categoryInput, ocr, n) IN
    [extractedCards |-> run.extractedCards, saveBtn |-> run.saveBtn,
     n |-> run.n, isProcessingOCR |-> FALSE,
     processBtn |-> [disabled |-> FALSE]]

\* the request of run i settles
OcrSettle(i) ==
    /\ i \in 1..Len(runs)
    /\ runs[i].pc = "awaiting"
    /\ \E c \in ImportCategoryInputs, ocr \in OcrOutcomes :
         LET p == ProcessSettled(c, ocr, idCount) IN
         /\ extractedCards' = p.extractedCards
         /\ saveBtn' = p.saveBtn
         /\ idCount' = p.n
         /\ isProcessingOCR' = p.isProcessingOCR
         /\ processBtn' = p.processBtn
         /\ runs' = [runs EXCEPT ![i] = Done(~ocr.ok)]
    /\ UNCHANGED <<steps, view, selectedImage>>
    /\ OcrFrame

NextOcr ==
    \/ ListFromImport
    \/ InitImportView
    \/ SelectImage
    \/ ProcessClick
    \/ \E i \in 1..MaxOcrEvents : OcrSettle(i)

SpecOcr == InitOcr /\ [][NextOcr]_vars

\* C22: under any interleaving of user events and OCR completions, at most
\* one OCR request is in flight at any time (a click on process-image-btn
\* while a request is outstanding starts no second one).
C22_OneRequestInFlight == InFlight <= 1

\* every OCR request settles: the promise of performOCR is fulfilled or
\* rejected (fetch ends with a response or an error)
SpecOcrFair ==
    InitOcr /\ [][NextOcr]_vars /\ \A i \in 1..MaxOcrEvents : WF_vars(OcrSettle(i))

\* run i was started and awaits
Started(i) == i <= Len(runs) /\ runs[i].pc = "awaiting"

\* run i is over, the flag is clear and the button enabled
Cleared(i) ==
    /\ i <= Len(runs) /\ runs[i].pc = "done"
    /\ ~isProcessingOCR
    /\ ~processBtn.disabled

\* this step ends run i with a failure
Fails(i) ==
    /\ i <= Len(runs')
    /\ runs'[i] = Done(TRUE)
    /\ (i > Len(runs) \/ runs[i].pc = "awaiting")

\* C27: every started image-processing run eventually clears
\* isProcessingOCR and enables the process button again, whether performOCR
\* returns text with cards, text with none, or fails; and the step in which
\* a run fails leaves extractedCards empty, the flag clear and the button
\* enabled.
C27_RunClearsFlag ==
    /\ \A i \in 1..MaxOcrEvents : Started(i) ~> Cleared(i)
    /\ [][\A i \in 1..MaxOcrEvents :
            Fails(i) => /\ extractedCards' = <<>>
                        /\ ~isProcessingOCR'
                        /\ ~processBtn'.disabled]_vars

\* a run that found cards and a run that failed are both over; the failed
\* one was the later and left no cards
C27_Witness ==
    /\ \E i, j \in 1..Len(runs) :
          i < j /\ runs[i] = Done(FALSE) /\ runs[j] = Done(TRUE)
    /\ InFlight = 0
    /\ extractedCards = <<>>
    /\ ~isProcessingOCR /\ ~processBtn.disabled

(***************************************************************************)
(* debounce(func, wait).  Time passes in ticks of one millisecond; a timer *)
(* runs at its due time or later, never earlier.                           *)
(***************************************************************************)
\* longest delay, latest time and most calls of the wrapper in one run
MaxWait == 2

MaxTime == 5

MaxCalls == 3

\* the arguments the wrapper is called with
DebounceArgs == {"p", "q"}

InitDebounce ==
    /\ StoreEmpty
    /\ ImportClosed
    /\ NotApplied
    /\ OneContext /\ NoOcr /\ NoQuiz
    /\ wait \in 1..MaxWait
    /\ now = 0
    /\ timeout = 0
    /\ timers = {}
    /\ log = <<>>

DebounceFrame == UNCHANGED <<store, import, call, tabs, processing, quiz>>

\* the calls of the wrapper so far
Calls == Cardinality({i \in 1..Len(log) : log[i].kind = "call"})

\* clearTimeout that clears nothing
ClearTimeoutNothing(ts, id) == ts

\* clearTimeout(id): the timer, if still set, is never run
ClearTimeout(ts, id) == {t \in ts : t.id # id}

\* setTimeout(later, wait) in a call with args: the timer and its id
SetTimeout(a) == [id |-> Calls + 1, due |-> now + wait, args |-> a]

\* executedFunction(...args): clearTimeout(timeout), then
\* timeout = setTimeout(later, wait)
CallWrapper ==
    /\ Calls < MaxCalls
    /\ now + wait <= MaxTime
    /\ \E a \in DebounceArgs :
         /\ timers' = ClearTimeout(timers, timeout) \cup {SetTimeout(a)}
         /\ timeout' = SetTimeout(a).id
         /\ log' = Append(log, [kind |-> "call", at |-> now, args |-> a])
    /\ UNCHANGED <<wait, now>>
    /\ DebounceFrame

\* a timer runs later(): clearTimeout(timeout), then func(...args)
TimerRuns ==
    /\ \E t \in timers :
         /\ t.due <= now
         /\ timers' = ClearTimeout(timers \ {t}, timeout)
         /\ log' = Append(log, [kind |-> "func", at |-> now, args |-> t.args])
    /\ UNCHANGED <<wait, now, timeout>>
    /\ DebounceFrame

\* a millisecond passes
Tick ==
    /\ now < MaxTime
    /\ now' = now + 1
    /\ UNCHANGED <<wait, timeout, timers, log>>
    /\ DebounceFrame

NextDebounce == CallWrapper \/ TimerRuns \/ Tick

SpecDebounce == InitDebounce /\ [][NextDebounce]_vars

\* time passes and a timer that is due runs
SpecDebounceFair ==
    SpecDebounce /\ WF_vars(Tick) /\ WF_vars(TimerRuns)

\* func is invoked wait or more after the call before it, with the
\* arguments of that call, and the entry before an invocation is a call
AfterLastCall ==
    \A i \in 1..Len(log) :
        log[i].kind = "func" =>
            /\ i > 1
            /\ log[i - 1].kind = "call"
            /\ log[i].args = log[i - 1].args
            /\ log[i].at >= log[i - 1].at + wait

\* no invocation lies between two calls less than wait apart
NoneInsideBurst ==
    \A i, j \in 1..Len(log) :
        (/\ i < j /\ log[i].kind = "call" /\ log[j].kind = "call"
         /\ log[j].at - log[i].at < wait)
        => \A k \in i..j : log[k].kind = "call"

\* what the log ends with: a call of the wrapper or an invocation of func
LastKind == IF log = <<>> THEN "" ELSE log[Len(log)].kind

\* C24: func is never invoked before wait has elapsed since the most recent
\* call of the wrapper; a burst of calls each less than wait apart results in
\* exactly one invocation of func, with the arguments of the last call of
\* the burst: none inside the burst, none after the first one that follows
\* it, and the one that follows it does come.
C24_Debounced ==
    /\ [](AfterLastCall /\ NoneInsideBurst)
    /\ \A n \in 1..MaxCalls :
          (Calls = n /\ LastKind = "call") ~> (Calls > n \/ LastKind = "func")

\* a burst of two calls less than wait apart, with different arguments, and
\* the one invocation that follows it
C24_Witness ==
    /\ Len(log) = 3
    /\ log[1].kind = "call" /\ log[2].kind = "call" /\ log[3].kind = "func"
    /\ log[1].at < log[2].at /\ log[2].at - log[1].at < wait
    /\ log[1].args # log[2].args
    /\ log[3].args = log[2].args
    /\ timers = {}

(***************************************************************************)
(* The inputs of the import preview.  Every input element has a debounced  *)
(* input handler of its own; displayImportPreview replaces the elements,   *)
(* and a timer set for a replaced element stays set.  Time is not measured *)
(* here: a timer that is set runs at any later step.                       *)
(***************************************************************************)
\* the delay of the input handlers, in milliseconds
PreviewWait == 300

InitPreview ==
    /\ StoreEmpty
    /\ ImportClosed
    /\ NotApplied
    /\ OneContext /\ NoOcr /\ NoQuiz
    /\ wait = PreviewWait
    /\ now = 0
    /\ timeout = 0
    /\ timers = {}
    /\ log = <<>>

\* the id of the card at dataset.index, "" when there is none
CardAt(index) ==
    IF index < Len(extractedCards)
    THEN Get(extractedCards[index + 1], "id").s ELSE ""

\* an input element of the preview as displayed now: the cards it was
\* written for, its data-index and its data-field
PreviewElement(index, field) == <<IdsOf(extractedCards), index, field>>

\* the user types into a preview input: the wrapper of its handler clears
\* the timer of this element and sets a new one
PreviewType ==
    /\ steps < MaxEvents
    /\ view = "import-view"
    /\ \E index \in 0..(Len(extractedCards) - 1), field \in {"question", "answer"},
          value \in PreviewValues :
         timers' = {t \in timers : t.element # PreviewElement(index, field)}
                   \cup {[element |-> PreviewElement(index, field),
                          index |-> index, field |-> field, value |-> value,
                          card |-> CardAt(index)]}
    /\ steps' = steps + 1
    /\ UNCHANGED <<storage, idCount, op, arg, ret, err, writes, pre, prev>>
    /\ UNCHANGED <<import, call, tabs, processing, quiz, wait, now, timeout, log>>

\* the timer of an input runs the handler:
\* extractedCards[index][field] = sanitizeInput(e.target.value), a TypeError
\* when extractedCards[index] is undefined
PreviewTimerRuns ==
    /\ \E t \in timers :
         /\ timers' = timers \ {t}
         /\ extractedCards' =
              IF t.index < Len(extractedCards)
              THEN [extractedCards EXCEPT ![t.index + 1] =
                      JObj(Put(extractedCards[t.index + 1].o, t.field,
                               JStr(SanitizeInput(t.value, DefaultMaxLength))))]
              ELSE extractedCards
         /\ log' = Append(log, [kind |-> "func", edited |-> t.card,
                                applied |-> CardAt(t.index)])
    /\ UNCHANGED <<store, saveBtn, view, call, tabs, processing, quiz, wait,
                   now, timeout>>

NextPreview ==
    \/ ShowList
    \/ OpenImport
    \/ ProcessImage
    \/ PreviewType
    \/ PreviewTimerRuns
    \/ PreviewDelete
    \/ SaveAll

SpecPreview == InitPreview /\ [][NextPreview]_vars

\* C28: a debounced edit of a preview input is applied to the card the user
\* edited, never to another card and never to an index that holds no card,
\* under any interleaving of edits, timers and deletions of preview cards.
C28_EditHitsItsCard ==
    \A i \in 1..Len(log) : log[i].applied = log[i].edited

(***************************************************************************)
(* The quiz: the start button of the home view, startQuiz,                 *)
(* displayCurrentCard, the action button, the quit button and the          *)
(* completion view.  The texts of the action button are written in Latin   *)
(* letters: "show answer" and "next".                                      *)
(***************************************************************************)
\* user events of the quiz in one run
MaxQuizEvents == 6

InitQuiz ==
    /\ storage \in InitialItems
    /\ idCount = 0
    /\ op = ""
    /\ arg = NoArg
    /\ ret = <<>>
    /\ err = NoException
    /\ writes = <<>>
    /\ pre = NoItem
    /\ prev = NoPrev
    /\ steps = 0
    /\ ImportClosed
    /\ NotApplied
    /\ PageLoaded

\* what a handler of the quiz leaves alone; every user event counts
QuizFrame ==
    /\ steps' = steps + 1
    /\ UNCHANGED <<op, arg, ret, err, writes, pre, prev, extractedCards,
                   saveBtn, call, tabs, processing, timing>>

\* the state of the quiz that displayCurrentCard reads and writes
QuizState(words, index, answerShown, btn, displayed, v) ==
    [quizWordArray |-> words, currentIndex |-> index,
     isAnswerShown |-> answerShown, actionBtn |-> btn, shown |-> displayed,
     view |-> v]

\* displayCurrentCard(): the completion view when currentIndex is past the
\* last card, else the question of the current card, the answer hidden
DisplayCurrentCard(q) ==
    IF q.currentIndex >= Len(q.quizWordArray)
    THEN [q EXCEPT !.view = "completion-view"]
    ELSE [q EXCEPT !.shown = Append(q.shown, q.quizWordArray[q.currentIndex + 1]),
                   !.actionBtn.textContent = "show answer",
                   !.isAnswerShown = FALSE]

\* the quiz takes the state q
Becomes(q) ==
    /\ quizWordArray' = q.quizWordArray
    /\ currentIndex' = q.currentIndex
    /\ isAnswerShown' = q.isAnswerShown
    /\ actionBtn' = q.actionBtn
    /\ shown' = q.shown
    /\ view' = q.view

\* the test of the start button that never finds the store empty
NoCardsNever(cards) == FALSE

\* cards.length === 0
NoCards(cards) == Len(cards) = 0

\* the outcomes the write-back of loadCards() can have on the item st
WriteBackOutcomesOf(st, n) ==
    IF LoadCards(st, n, NoException).writes = <<>>
    THEN {NoException} ELSE SetItemOutcomes

\* start-quiz-btn: loadCards(); an alert when there are no cards, else
\* startQuiz(), which calls loadCards() again, shuffles and displays the
\* first card
StartQuizClick ==
    /\ steps < MaxQuizEvents
    /\ view = "home-view"
    /\ \E w1 \in WriteBackOutcomes :
         \E l1 \in {LoadCards(storage, idCount, w1)} :
         IF NoCards(l1.cards)
         THEN /\ storage' = l1.storage
              /\ idCount' = l1.n
              /\ UNCHANGED <<quiz, view>>
         ELSE \E w2 \in WriteBackOutcomesOf(l1.storage, l1.n) :
              \E l2 \in {LoadCards(l1.storage, l1.n, w2)} :
              /\ storage' = l2.storage
              /\ idCount' = l2.n
              /\ \E draws \in Draws(Len(l2.cards)) :
                   Becomes(DisplayCurrentCard(
                       QuizState(ShuffleCards(l2.cards, draws).shuffled, 0, FALSE,
                                 [actionBtn EXCEPT !.clicks = 0], <<>>,
                                 "quiz-view")))
    /\ QuizFrame

\* quiz-action-btn: the answer is shown, or the next card is displayed
QuizAction ==
    /\ steps < MaxQuizEvents
    /\ view = "quiz-view"
    /\ LET btn == [actionBtn EXCEPT !.clicks = @ + 1] IN
       IF ~isAnswerShown
       THEN Becomes(QuizState(quizWordArray, currentIndex, TRUE,
                              [btn EXCEPT !.textContent = "next"], shown, view))
       ELSE Becomes(DisplayCurrentCard(
                QuizState(quizWordArray, currentIndex + 1, isAnswerShown, btn,
                          shown, view)))
    /\ UNCHANGED <<storage, idCount>>
    /\ QuizFrame

\* quit-quiz-btn, confirmed, and back-to-home-btn: initHomeView()
BackToHome ==
    /\ steps < MaxQuizEvents
    /\ view \in {"quiz-view", "completion-view"}
    /\ view' = "home-view"
    /\ UNCHANGED <<storage, idCount, quiz>>
    /\ QuizFrame

NextQuiz == StartQuizClick \/ QuizAction \/ BackToHome

SpecQuiz == InitQuiz /\ [][NextQuiz]_vars

\* C25: a quiz is started on n >= 1 cards only.  While the quiz view is
\* shown, 0 <= currentIndex < n, the presses of the action button alternate
\* between showing the answer and going on (the k-th press shows the answer
\* when k is odd; the button reads "next" after it and "show answer" before
\* it), and the cards displayed so far are the first currentIndex + 1 cards
\* of the shuffled sequence, each once, in order.  The completion view is
\* shown after exactly 2n presses, every card displayed once.
C25_QuizWalk ==
    LET n == Len(quizWordArray)
        k == actionBtn.clicks
    IN  /\ view = "quiz-view" =>
            /\ n >= 1
            /\ 0 <= currentIndex /\ currentIndex < n
            /\ currentIndex = k \div 2
            /\ isAnswerShown <=> (k % 2 = 1)
            /\ actionBtn.textContent =
                  IF isAnswerShown THEN "next" ELSE "show answer"
            /\ shown = SubSeq(quizWordArray, 1, currentIndex + 1)
        /\ view = "completion-view" =>
            /\ n >= 1
            /\ k = 2 * n
            /\ shown = quizWordArray

\* a quiz on two cards, shuffled into the other order, walked to its end
C25_Witness ==
    /\ view = "completion-view"
    /\ Len(quizWordArray) = 2
    /\ actionBtn.clicks = 4
    /\ HoldsCards(storage)
    /\ quizWordArray = <<CardsOf(storage)[2], CardsOf(storage)[1]>>
    /\ quizWordArray[1] # quizWordArray[2]

(***************************************************************************)
(* parseSubscriptSuperscript: the string it returns, read as HTML.         *)
(***************************************************************************)
\* the wrapper tags and the entities escapeHtml writes
WrapperTags == {OpenTag("superscript"), OpenTag("subscript"), CloseTag}

Entities == {"&lt;", "&gt;", "&amp;"}

\* str stands in x from position i on, every character of it written by a
\* replacement (by = TRUE) or stemming from the escaped text (by = FALSE)
StandsAt(x, i, str, by) ==
    /\ i + Len(str) - 1 <= Len(x.s)
    /\ SubSeq(x.s, i, i + Len(str) - 1) = str
    /\ \A k \in i..(i + Len(str) - 1) : x.own[k] = by

\* every character a replacement wrote lies in a whole wrapper tag
TagsWhole(x) ==
    \A p \in 1..Len(x.s) :
        x.own[p] => \E tag \in WrapperTags :
                        \E i \in (p - Len(tag) + 1)..p :
                            i >= 1 /\ Char(x.s, i) = "<" /\ StandsAt(x, i, tag, TRUE)

\* every "&" of the escaped text still begins a whole entity
EntitiesWhole(x) ==
    \A i \in 1..Len(x.s) :
        (~x.own[i] /\ Char(x.s, i) = "&")
            => \E entity \in Entities : StandsAt(x, i, entity, FALSE)

\* the open tags and the close tags that begin at or before position k
OpenTagsTo(x, k) ==
    Cardinality({i \in 1..k : \E class \in {"superscript", "subscript"} :
                                  StandsAt(x, i, OpenTag(class), TRUE)})

CloseTagsTo(x, k) == Cardinality({i \in 1..k : StandsAt(x, i, CloseTag, TRUE)})

\* every open tag has its close tag behind it, and no close tag is without
\* an open tag before it
TagsMatched(x) ==
    /\ \A k \in 1..Len(x.s) : CloseTagsTo(x, k) <= OpenTagsTo(x, k)
    /\ CloseTagsTo(x, Len(x.s)) = OpenTagsTo(x, Len(x.s))

\* C30: for every input the string parseSubscriptSuperscript returns is
\* well-formed: every wrapper open tag is matched by a close tag, and no
\* later replacement has rewritten part of a wrapper tag or of an entity that
\* an earlier step wrote.
C30_WellFormed ==
    fn = "parseSubscriptSuperscript" =>
        /\ TagsWhole(result)
        /\ EntitiesWhole(result)
        /\ TagsMatched(result)

(***************************************************************************)
(* getCategories: [...new Set(cards.map(card => card.category))].sort()    *)
(***************************************************************************)
\* the UTF-16 code unit of a character of the category values
CharCode(c) ==
    CASE c = "B" -> 66
      [] c = "a" -> 97
      [] c = "b" -> 98

RECURSIVE StringLess(_, _)
\* s < t for strings: by code units, a proper prefix first
StringLess(s, t) ==
    IF t = "" THEN FALSE
    ELSE IF s = "" THEN TRUE
    ELSE IF Head(s) = Head(t) THEN StringLess(Tail(s), Tail(t))
    ELSE CharCode(Head(s)) < CharCode(Head(t))

\* the order of Array.prototype.sort without a compare function: undefined
\* last, every other value by its string
SortsBefore(x, y) ==
    IF x.t = "undefined" THEN FALSE
    ELSE IF y.t = "undefined" THEN TRUE
    ELSE StringLess(x.s, y.s)

\* cards.map(card => card.category)
CategoriesOf(cards) == [i \in 1..Len(cards) |-> Get(cards[i], "category")]

RECURSIVE SetValues(_, _)
\* [...new Set(values)]: every value once, in the order of first occurrence
SetValues(values, acc) ==
    IF values = <<>> THEN acc
    ELSE SetValues(Tail(values),
                   IF \E i \in 1..Len(acc) : acc[i] = Head(values)
                   THEN acc ELSE Append(acc, Head(values)))

\* v put into the sorted sequence, behind the values that do not sort after it
Insert(sorted, v) ==
    LET k == Cardinality({i \in 1..Len(sorted) : ~SortsBefore(v, sorted[i])})
    IN  SubSeq(sorted, 1, k) \o <<v>> \o SubSeq(sorted, k + 1, Len(sorted))

RECURSIVE SortFrom(_, _)
SortFrom(values, sorted) ==
    IF values = <<>> THEN sorted
    ELSE SortFrom(Tail(values), Insert(sorted, Head(values)))

\* values.sort() that leaves the order as it is
SortNothing(values) == values

\* values.sort()
Sort(values) == SortFrom(values, <<>>)

\* getCategories() after its loadCards() call returned cards
GetCategoriesOf(cards) == Sort(SetValues(CategoriesOf(cards), <<>>))

\* most cards in the store
MaxCategoryCards == 3

CategoryValues == {"a", "b", "B", "ab"}

\* a stored card with category c: without an id, or with one
CategoryCards(c) ==
    {JObj(<<Prop("category", JStr(c)), Prop("question", JStr("q1")),
            Prop("answer", JStr("a1"))>>),
     JObj(<<Prop("id", JStr("a")), Prop("category", JStr(c)),
            Prop("question", JStr("q1")), Prop("answer", JStr("a1"))>>)}

CategoryElements == {JNull} \cup UNION {CategoryCards(c) : c \in CategoryValues}

CategoryItems ==
    BrokenItems \cup
    UNION {{Item(Stringify(JArr(a))) : a \in [1..n -> CategoryElements]} :
             n \in 0..MaxCategoryCards}

InitCategories ==
    /\ storage \in CategoryItems
    /\ idCount = 0
    /\ op = ""
    /\ arg = NoArg
    /\ ret = <<>>
    /\ err = NoException
    /\ writes = <<>>
    /\ pre = NoItem
    /\ prev = NoPrev
    /\ steps = 0
    /\ ImportClosed
    /\ NotApplied
    /\ PageLoaded

\* a caller calls getCategories() once; its loadCards() call has write-back
\* outcome w
GetCategories ==
    /\ fn = ""
    /\ fn' = "getCategories"
    /\ \E w \in WriteBackOutcomes :
         LET l == LoadCards(storage, idCount, w) IN
         /\ result' = GetCategoriesOf(l.cards)
         /\ storage' = l.storage
         /\ idCount' = l.n
         /\ ret' = l.cards
         /\ writes' = l.writes
         /\ err' = l.exc
    /\ op' = "getCategories"
    /\ pre' = storage
    /\ steps' = steps + 1
    /\ UNCHANGED <<arg, prev, args, import, page>>

NextCategories == GetCategories

SpecCategories == InitCategories /\ [][NextCategories]_vars

\* the categories of the cards in the store: those of the stored array of
\* card records; a store that is absent or cannot be read holds none
StoredCategories(st) ==
    IF HoldsCards(st)
    THEN {Get(CardsOf(st)[i], "category") : i \in 1..Len(CardsOf(st))}
    ELSE {}

\* C21: getCategories returns each category value present in the store
\* exactly once, in ascending lexicographic order (by code units), and no
\* value that is not the category of a stored card.
C21_Categories ==
    fn = "getCategories" =>
        /\ {result[i] : i \in 1..Len(result)} = StoredCategories(pre)
        /\ \A i, j \in 1..Len(result) : i < j => SortsBefore(result[i], result[j])

\* three cards with a category that repeats and one that differs in case
\* only: "B" comes before "b"
C21_Witness ==
    /\ fn = "getCategories"
    /\ HoldsCards(pre)
    /\ CategoriesOf(CardsOf(pre)) = <<JStr("b"), JStr("B"), JStr("b")>>
    /\ result = <<JStr("B"), JStr("b")>>

====
